---- MODULE Spec2Model ----
(***************************************************************************)
(* A model of the image pipeline of enhanced_scraper.py:                   *)
(*   - is_social_media_compatible  (dimension / quality classifier)        *)
(*   - convert_to_original_url     (URL normaliser)                        *)
(*   - extract_image_data          (per-element filter chain)              *)
(*   - scrape_category             (deduplicating collection loop)         *)
(*                                                                         *)
(* Python values that may be None are modelled as options: None is the     *)
(* empty tuple and Some(v) the one-element tuple <<v>>.  URLs are          *)
(* sequences of one-character strings, so that substring tests and the     *)
(* regular expressions are computed character by character.                *)
(***************************************************************************)
EXTENDS Integers, Sequences, FiniteSets, TLC

VARIABLES
    \* --- is_social_media_compatible, applied to one image and then a second
    cls_pc,                 \* "idle" | "input" | "first" | "both"
    cls_w, cls_h,           \* arguments of the first call (options of integers)
    cls_out,                \* result of the first call
    cls_w2, cls_h2,         \* arguments of the second call
    cls_out2,               \* result of the second call
    \* --- convert_to_original_url, applied to a URL and then to its result
    url_pc,                 \* "idle" | "input" | "once" | "twice"
    url_in,                 \* the argument (a sequence of characters)
    url_out,                \* result of the first call (an option)
    url_out2,               \* result of the call on the first result (an option)
    \* --- scrape_category
    pc,                     \* "idle" | "while" | "for" | "store" | "done"
    target_count,           \* parameter
    max_scrolls,            \* parameter
    scraped_images,         \* the dict, as its entries in insertion order
    no_new_images_count,
    scroll_count,
    initial_count,
    img_left,               \* elements of img_elements not yet iterated over
    category_data,          \* the returned record (an option)
    scraped_data,           \* self.scraped_data
    \* --- history of the run, read by the properties only
    stop_reason,            \* which exit of the while loop was taken
    h_first_seen,           \* first item offered under each key, in order
    h_last_offer,           \* extract_image_data's result for the last element
    h_pass_new,             \* has the current pass added a key
    h_empty_passes,         \* completed passes since the last one that added a key
    h_passes,               \* passes of the while loop started
    \* --- extract_image_data, applied to one element
    ext_pc,                 \* "idle" | "input" | "extracted" | "both"
    ext_in,                 \* the element
    ext_out,                \* the result (an option)
    ext_norm,               \* convert_to_original_url of the element's src alone
    \* --- DataExtractor.is_slideshow_post, applied to one value
    ss_pc,                  \* "idle" | "input" | "done"
    ss_in,                  \* the argument post_data
    ss_out,                 \* "none" | "True" | "False" | "raised"
    ss_err,                 \* did the body of the try statement raise
    \* --- DataExtractor.extract_hook
    hk_pc,                  \* "idle" | "input" | "done"
    hk_caption,             \* the argument caption (a sequence of characters)
    hk_max_length,          \* the argument max_length
    hk_out,                 \* the hook returned
    \* --- HookAnalyzer.categorize_hook
    cat_pc,                 \* "idle" | "input" | "done" | "picked"
    cat_hook,               \* the argument hook
    cat_out,                \* the dict returned, as its entries in insertion order
    cat_primary,            \* primary_category of generate_training_data, an option
    \* --- TikTokScraper.scrape_profile, from extract_page_data on
    prof_pc,                \* "idle" | "input" | "extracted" | "done"
    prof_data,              \* page_data
    prof_posts,             \* all_posts
    prof_result,            \* result: total_posts, slideshow_posts, posts
    \* --- save_urls_to_txt
    agg_pc,                 \* "idle" | "input" | "tiers" | "done"
    agg_images,             \* the argument images
    agg_perfect,            \* perfect_images
    agg_croppable,          \* croppable_images
    agg_perfect_by,         \* perfect_by_aspect, as its entries in insertion order
    agg_croppable_by,       \* croppable_by_aspect
    \* --- two calls of scrape_category on one scraper, their passes interleaved
    run_pc,                 \* of each call: "idle" | "while" | "store" | "done"
    run_target,             \* of each call: target_count
    run_max_scrolls,        \* of each call: max_scrolls
    run_images,             \* of each call: its local scraped_images
    run_no_new,             \* of each call: no_new_images_count
    run_scroll,             \* of each call: scroll_count
    run_data,               \* of each call: the returned record (an option)
    run_scraped_data,       \* self.scraped_data, which the calls share
    h_run_passes,           \* of each call: the img_elements of its passes, in order
    \* --- tiktok-scraper: profiles.json, the cli and scrape_multiple_profiles
    tk_shared,              \* are cli commands run while a scrape is running
    tk_file,                \* profiles.json: of each username its entry (an option)
    tk_data,                \* profiles_data of the scraper's ProfileManager
    tk_pc,                  \* "idle" | "loop" | "navigate" | "body" | "append" |
                            \* "save" | "delay" | "done" | "raised"
    tk_usernames,           \* the argument usernames
    tk_i,                   \* index of the username at hand, from 1
    tk_results,             \* results
    tk_result,              \* result of the scrape_profile call at hand
    tk_clock,               \* datetime.now(), as the number of scrape_profile calls
    h_nav_attempts,         \* runs of navigate_to_profile's body in the call at hand
    h_nav_ok,               \* did navigate_to_profile return True in the call at hand
    h_failed,               \* of each username: failed scrapes since added or reset
    h_cli                   \* of each username: what the cli did since the scraper
                            \* was created: "none" | "added" | "removed"

cls_vars == <<cls_pc, cls_w, cls_h, cls_out, cls_w2, cls_h2, cls_out2>>
url_vars == <<url_pc, url_in, url_out, url_out2>>
scr_vars == <<pc, target_count, max_scrolls, scraped_images, no_new_images_count,
              scroll_count, initial_count, img_left, category_data, scraped_data,
              stop_reason, h_first_seen, h_last_offer, h_pass_new, h_empty_passes,
              h_passes>>
ext_vars == <<ext_pc, ext_in, ext_out, ext_norm>>
ss_vars == <<ss_pc, ss_in, ss_out, ss_err>>
hk_vars == <<hk_pc, hk_caption, hk_max_length, hk_out>>
cat_vars == <<cat_pc, cat_hook, cat_out, cat_primary>>
prof_vars == <<prof_pc, prof_data, prof_posts, prof_result>>
agg_vars == <<agg_pc, agg_images, agg_perfect, agg_croppable, agg_perfect_by,
              agg_croppable_by>>
aux_vars == <<ext_vars, ss_vars, hk_vars, cat_vars, prof_vars, agg_vars>>
run_vars == <<run_pc, run_target, run_max_scrolls, run_images, run_no_new, run_scroll,
              run_data, run_scraped_data, h_run_passes>>
tk_vars == <<tk_shared, tk_file, tk_data, tk_pc, tk_usernames, tk_i, tk_results, tk_result,
             tk_clock, h_nav_attempts, h_nav_ok, h_failed, h_cli>>
ctl_vars == <<run_vars, tk_vars>>
vars == <<cls_vars, url_vars, scr_vars, aux_vars, ctl_vars>>

---------------------------------------------------------------------------
(* Options *)

None == <<>>
Some(v) == <<v>>
Val(o) == o[1]

\* Python truthiness of an int-or-None value: None and 0 are falsy.
Falsy(o) == o = None \/ Val(o) = 0

Abs(n) == IF n < 0 THEN -n ELSE n
Max2(a, b) == IF a >= b THEN a ELSE b
Min2(a, b) == IF a <= b THEN a ELSE b

---------------------------------------------------------------------------
(* EnhancedPinterestScraper.__init__ : the classifier's configuration *)

target_aspect_ratios ==
    << <<9, 16>>, <<1, 1>>, <<4, 5>>, <<3, 4>>, <<2, 3>>, <<5, 8>> >>

min_resolution == 500

preferred_dimensions ==
    { <<1080, 1920>>, <<1080, 1080>>, <<1080, 1350>>,
      <<1080, 1440>>, <<1080, 1620>>, <<1080, 1728>> }

perfect_ratios == { <<9, 16>>, <<1, 1>>, <<4, 5>> }
croppable_ratios == { <<3, 4>>, <<2, 3>>, <<5, 8>> }

\* tolerance = 0.35, as the fraction ToleranceNum / ToleranceDen
ToleranceNum == 35
ToleranceDen == 100

\* f"{target_w}:{target_h}"
RatioName(t) == ToString(t[1]) \o ":" \o ToString(t[2])

(***************************************************************************)
(* abs(width / height - target_w / target_h) <= tolerance, in IEEE double  *)
(* arithmetic.  Away from the boundary the comparison agrees with exact    *)
(* arithmetic (the distance to the boundary is at least 1/(100*h*target_h),*)
(* far above the rounding error).  Exactly on the boundary the rounding of *)
(* the three double operations decides; the quotient is correctly rounded, *)
(* so the outcome depends on the ratio and the side alone.  The left side  *)
(* evaluates to 0.3500000000000001 > 0.35 for 27/20 against 1:1 and for    *)
(* 11/10 against 3:4, and to 0.35000000000000003 > 0.35 for 9/20 against   *)
(* 4:5; on the other nine boundaries it is <= 0.35.                        *)
(***************************************************************************)
RoundedOut == { <<1, 1, 1>>, <<3, 4, 1>>, <<4, 5, -1>> }

Sign(n) == IF n > 0 THEN 1 ELSE IF n < 0 THEN -1 ELSE 0

WithinTolerance(w, h, t) ==
    LET cross == w * t[2] - t[1] * h          \* sign(h) * (w/h - tw/th) * h*th
        lhs == ToleranceDen * Abs(cross)
        rhs == ToleranceNum * Abs(h) * t[2]
    IN  IF lhs < rhs THEN TRUE
        ELSE IF lhs > rhs THEN FALSE
        ELSE <<t[1], t[2], Sign(cross) * Sign(h)>> \notin RoundedOut

\* A tier table with the two lists exchanged.
TierOf_Swapped(t) == IF t \in croppable_ratios THEN "perfect" ELSE "croppable"

\* lines 156-162: tier and base score of a catalog ratio
TierOf(t) == IF t \in perfect_ratios THEN "perfect" ELSE "croppable"
BaseScore(t) == IF t \in perfect_ratios THEN 80 ELSE 60

\* A score whose two min_dim bonuses are exchanged.
CandidateScore_BonusSwapped(w, h, t) ==
    IF <<w, h>> \in preferred_dimensions \/ <<h, w>> \in preferred_dimensions
    THEN (IF t \in perfect_ratios THEN 100 ELSE 85)
    ELSE (IF t \in perfect_ratios THEN 80 ELSE 60)
         + (IF Min2(w, h) >= 1080 THEN 10 ELSE IF Min2(w, h) >= 720 THEN 15 ELSE 0)
         + (IF Max2(w, h) >= 1920 THEN 5 ELSE IF Max2(w, h) >= 1440 THEN 3 ELSE 0)

\* lines 153-184: the score computed for one catalog ratio within tolerance
CandidateScore(w, h, t) ==
    IF <<w, h>> \in preferred_dimensions
    THEN (IF TierOf(t) = "perfect" THEN 100 ELSE 85)
    ELSE IF <<h, w>> \in preferred_dimensions
    THEN (IF TierOf(t) = "perfect" THEN 100 ELSE 85)
    ELSE LET min_dim == Min2(w, h)
             max_dim == Max2(w, h)
             s1 == BaseScore(t) + (IF min_dim >= 1080 THEN 15
                                   ELSE IF min_dim >= 720 THEN 10 ELSE 0)
         IN  s1 + (IF max_dim >= 1920 THEN 5
                   ELSE IF max_dim >= 1440 THEN 3 ELSE 0)

\* A comparison that lets a later ratio of equal score replace the earlier one.
Improves_OnTies(score, best_score) == score >= best_score

\* line 186: does this candidate replace the best match so far
Improves(score, best_score) == score > best_score

\* lines 149-189: one iteration of the loop over target_aspect_ratios
RatioStep(acc, w, h, t) ==
    IF WithinTolerance(w, h, t) /\ Improves(CandidateScore(w, h, t), acc.best_score)
    THEN [best_score |-> CandidateScore(w, h, t),
          best_match |-> Some(RatioName(t)),
          quality_tier |-> Some(TierOf(t))]
    ELSE acc

RECURSIVE RatioLoop(_, _, _, _)
RatioLoop(acc, w, h, i) ==
    IF i > Len(target_aspect_ratios) THEN acc
    ELSE RatioLoop(RatioStep(acc, w, h, target_aspect_ratios[i]), w, h, i + 1)

Rejected ==
    [compatible |-> FALSE, aspect_match |-> None, quality_score |-> 0,
     quality_tier |-> None]

\* line 128: if not width or not height
MissingDimension(width, height) == Falsy(width) \/ Falsy(height)

\* A floor without the 20% allowance.
BelowFloor_Nominal(w, h) == Max2(w, h) < min_resolution

\* line 132: max(width, height) < self.min_resolution * 0.8   (= 400.0)
BelowFloor(w, h) == 10 * Max2(w, h) < min_resolution * 8

\* lines 126-191
is_social_media_compatible(width, height) ==
    IF MissingDimension(width, height) THEN Rejected
    ELSE IF BelowFloor(Val(width), Val(height)) THEN Rejected
    ELSE LET fin == RatioLoop([best_score |-> 0, best_match |-> None,
                               quality_tier |-> None],
                              Val(width), Val(height), 1)
         IN  [compatible |-> fin.best_match # None,
              aspect_match |-> fin.best_match,
              quality_score |-> fin.best_score,
              quality_tier |-> fin.quality_tier]

---------------------------------------------------------------------------
(* Strings as sequences of characters *)

S_host == <<"h", "t", "t", "p", "s", ":", "/", "/", "i", ".", "p", "i", "n", "i", "m", "g", ".", "c", "o", "m", "/">>
S_originals == <<"o", "r", "i", "g", "i", "n", "a", "l", "s">>
S_original_typo == <<"/", "o", "r", "i", "g", "i", "n", "a", "l", "/">>
S_videos == <<"/", "v", "i", "d", "e", "o", "s", "/">>
S_frame0 == <<".", "0", "0", "0", "0", "0", "0", "0", ".">>
S_frame1 == <<".", "0", "0", "0", "0", "0", "0", "1", ".">>
S_host_originals == S_host \o S_originals \o <<"/">>

Digits == {"0", "1", "2", "3", "4", "5", "6", "7", "8", "9"}
HexLower == Digits \cup {"a", "b", "c", "d", "e", "f"}

\* pat in s
Contains(s, pat) ==
    \E i \in 1..(Len(s) - Len(pat) + 1) : SubSeq(s, i, i + Len(pat) - 1) = pat

StartsWith(s, pat) == Len(s) >= Len(pat) /\ SubSeq(s, 1, Len(pat)) = pat

\* the first index >= i whose character is not in cls (Len(s) + 1 if none)
RECURSIVE RunEnd(_, _, _)
RunEnd(s, i, cls) ==
    IF i <= Len(s) /\ s[i] \in cls THEN RunEnd(s, i + 1, cls) ELSE i

\* the first index >= i whose character is "/" (Len(s) + 1 if none): [^/]+ is greedy
RECURSIVE SegmentEnd(_, _)
SegmentEnd(s, i) ==
    IF i <= Len(s) /\ s[i] # "/" THEN SegmentEnd(s, i + 1) ELSE i

IsChar(s, i, c) == i <= Len(s) /\ s[i] = c

\* [a-f0-9]{2}/ at index i
HexPair(s, i) ==
    /\ i + 2 <= Len(s)
    /\ s[i] \in HexLower /\ s[i + 1] \in HexLower /\ s[i + 2] = "/"

\* ([a-f0-9]{2}/[a-f0-9]{2}/[a-f0-9]{2}/[^/]+) at index i: the captured group
HashPathGroup(s, i) ==
    IF HexPair(s, i) /\ HexPair(s, i + 3) /\ HexPair(s, i + 6)
       /\ SegmentEnd(s, i + 9) > i + 9
    THEN Some(SubSeq(s, i, SegmentEnd(s, i + 9) - 1))
    ELSE None

\* re.match(r'https://i\.pinimg\.com/\d+x/(...)', url): group(1) or None.
\* \d+ is followed by the literal x, which is no digit, so the greedy run of
\* digits is the only way to match.
MatchWidthBucket(url) ==
    LET d0 == Len(S_host) + 1
        d1 == RunEnd(url, d0, Digits)
    IN  IF StartsWith(url, S_host) /\ d1 > d0
           /\ IsChar(url, d1, "x") /\ IsChar(url, d1 + 1, "/")
        THEN HashPathGroup(url, d1 + 2)
        ELSE None

\* re.match(r'https://i\.pinimg\.com/\d+x\d+/(...)', url): group(1) or None.
MatchSizeBucket(url) ==
    LET d0 == Len(S_host) + 1
        d1 == RunEnd(url, d0, Digits)
        e1 == RunEnd(url, d1 + 1, Digits)
    IN  IF StartsWith(url, S_host) /\ d1 > d0
           /\ IsChar(url, d1, "x") /\ e1 > d1 + 1 /\ IsChar(url, e1, "/")
        THEN HashPathGroup(url, e1 + 1)
        ELSE None

\* A video check that does not know the second frame marker.
IsVideoThumbnail_NoFrame1(url) == Contains(url, S_videos) \/ Contains(url, S_frame0)

\* line 196
IsVideoThumbnail(url) ==
    Contains(url, S_videos) \/ Contains(url, S_frame0) \/ Contains(url, S_frame1)

\* A test for the bucket that looks for a misspelt path segment.
AlreadyOriginal_Typo(url) == Contains(url, S_original_typo)

\* line 206: 'originals' in url
AlreadyOriginal(url) == Contains(url, S_originals)

\* lines 193-225
convert_to_original_url(url) ==
    IF IsVideoThumbnail(url) THEN None
    ELSE IF AlreadyOriginal(url) THEN Some(url)
    ELSE IF MatchWidthBucket(url) # None
    THEN Some(S_host_originals \o Val(MatchWidthBucket(url)))
    ELSE IF MatchSizeBucket(url) # None
    THEN Some(S_host_originals \o Val(MatchSizeBucket(url)))
    ELSE None

---------------------------------------------------------------------------
(* extract_image_data *)

S_pinimg == <<"p", "i", "n", "i", "m", "g", ".", "c", "o", "m">>
S_60x60 == <<"/", "6", "0", "x", "6", "0", "/">>
S_75x75 == <<"/", "7", "5", "x", "7", "5", "/">>
S_140x == <<"/", "1", "4", "0", "x", "/">>

\* A thumbnail check that only knows the 140-pixel bucket.
IsTinyThumbnail_Only140(src) == Contains(src, S_140x)

\* line 235
IsTinyThumbnail(src) ==
    Contains(src, S_60x60) \/ Contains(src, S_75x75) \/ Contains(src, S_140x)

\* lines 281-294 (the timestamp, which no decision reads, is left out)
ImageData(e, original_src, width, height, c) ==
    [image_url |-> original_src,
     thumbnail_url |-> Val(e.src),
     alt_text |-> IF e.alt = None THEN "" ELSE Val(e.alt),
     pin_url |-> e.href,
     dimensions |-> [width |-> width, height |-> height,
                     aspect_ratio |-> Val(c.aspect_match),
                     quality_score |-> c.quality_score,
                     quality_tier |-> Val(c.quality_tier)]]

\* A filter chain that keeps the src when the normaliser rejects it.
extract_image_data_KeepsSrc(e) ==
    IF e.raises = "extract" THEN None
    ELSE IF e.src = None \/ Val(e.src) = <<>> \/ ~Contains(Val(e.src), S_pinimg) THEN None
    ELSE IF IsTinyThumbnail(Val(e.src)) THEN None
    ELSE IF IsVideoThumbnail(Val(e.src)) THEN None
    ELSE LET converted == convert_to_original_url(Val(e.src))
             original_src == IF converted = None THEN e.src ELSE converted
         IN  IF e.dims = None THEN None
             ELSE LET c == is_social_media_compatible(Some(e.dims[1]), Some(e.dims[2]))
                  IN  IF ~c.compatible THEN None
                      ELSE Some(ImageData(e, Val(original_src), e.dims[1], e.dims[2], c))

\* lines 227-297.  An element e is what the browser and the network answer
\* for it: its src, alt and ancestor href attributes (options), the
\* dimensions get_image_dimensions finds for the converted URL (an option),
\* and whether reading it raises.
extract_image_data(e) ==
    IF e.raises = "extract" THEN None
    ELSE IF e.src = None \/ Val(e.src) = <<>> \/ ~Contains(Val(e.src), S_pinimg) THEN None
    ELSE IF IsTinyThumbnail(Val(e.src)) THEN None
    ELSE IF IsVideoThumbnail(Val(e.src)) THEN None
    ELSE LET original_src == convert_to_original_url(Val(e.src))
         IN  IF original_src = None THEN None
             ELSE IF e.dims = None THEN None
             ELSE LET c == is_social_media_compatible(Some(e.dims[1]), Some(e.dims[2]))
                  IN  IF ~c.compatible THEN None
                      ELSE Some(ImageData(e, Val(original_src), e.dims[1], e.dims[2], c))

---------------------------------------------------------------------------
(* The elements of the page *)

U_236_x == S_host \o <<"2", "3", "6", "x", "/">> \o <<"8", "a", "/", "0", "6", "/", "c", "7", "/", "x", ".", "j", "p", "g">>
U_736_x == S_host \o <<"7", "3", "6", "x", "/">> \o <<"8", "a", "/", "0", "6", "/", "c", "7", "/", "x", ".", "j", "p", "g">>
U_140_x == S_host \o <<"1", "4", "0", "x", "/">> \o <<"8", "a", "/", "0", "6", "/", "c", "7", "/", "x", ".", "j", "p", "g">>
U_orig_y == S_host \o <<"o", "r", "i", "g", "i", "n", "a", "l", "s", "/">> \o <<"8", "a", "/", "0", "6", "/", "c", "7", "/", "y", ".", "j", "p", "g">>
U_474_z == S_host \o <<"4", "7", "4", "x", "/">> \o <<"8", "a", "/", "0", "6", "/", "c", "7", "/", "z", ".", "j", "p", "g">>
U_564_w == S_host \o <<"5", "6", "4", "x", "/">> \o <<"8", "a", "/", "0", "6", "/", "c", "7", "/", "w", ".", "j", "p", "g">>
U_video == S_host \o <<"v", "i", "d", "e", "o", "s", "/", "t", "h", "u", "m", "b", "n", "a", "i", "l", "s", "/", "o", "r", "i", "g", "i", "n", "a", "l", "s", "/">> \o <<"8", "a", "/", "0", "6", "/", "c", "7", "/", "x", ".", "0", "0", "0", "0", "0", "0", "0", ".", "j", "p", "g">>
U_236_named == S_host \o <<"2", "3", "6", "x", "/">> \o <<"8", "a", "/", "0", "6", "/", "c", "7", "/", "o", "r", "i", "g", "i", "n", "a", "l", "s", ".", "j", "p", "g">>
U_nobucket == S_host \o <<>> \o <<"8", "a", "/", "0", "6", "/", "c", "7", "/", "x", ".", "j", "p", "g">>

Element(src, alt, href, dims, raises) ==
    [src |-> src, alt |-> alt, href |-> href, dims |-> dims, raises |-> raises]

\* The elements a pass may meet: three distinct images, two of them reachable
\* through two different elements, a thumbnail whose file name contains the
\* word originals, and one element for each way of being skipped.
Elements ==
    { Element(Some(U_236_x), Some("cat"), Some("/pin/1/"), <<1080, 1920>>, "no"),
      Element(Some(U_736_x), None, None, <<1080, 1080>>, "no"),
      Element(Some(U_orig_y), Some("dog"), Some("/pin/2/"), <<720, 960>>, "no"),
      Element(Some(U_orig_y), Some("puppy"), None, <<1080, 1350>>, "no"),
      Element(Some(U_474_z), Some(""), Some("/pin/3/"), <<1080, 1440>>, "no"),
      Element(Some(U_564_w), Some("wide"), Some("/pin/4/"), <<1920, 1080>>, "no"),
      Element(Some(U_236_x), Some("cat"), Some("/pin/1/"), None, "no"),
      Element(Some(U_140_x), Some("cat"), Some("/pin/1/"), <<1080, 1920>>, "no"),
      Element(Some(U_video), Some("clip"), Some("/pin/5/"), <<1080, 1920>>, "no"),
      Element(Some(U_nobucket), Some("cat"), None, <<1080, 1920>>, "no"),
      Element(Some(U_236_named), Some("odd"), None, <<1080, 1920>>, "no"),
      Element(None, None, None, None, "no"),
      Element(Some(U_474_z), Some(""), None, <<1080, 1440>>, "src"),
      Element(Some(U_474_z), Some(""), None, <<1080, 1440>>, "extract") }

\* extract_image_data of every element, computed once
Extracted == [e \in Elements |-> extract_image_data(e)]

---------------------------------------------------------------------------
(* The dict scraped_images: entries in insertion order *)

DictHas(d, k) == \E i \in DOMAIN d : d[i].key = k

DictSet(d, k, v) ==
    IF DictHas(d, k)
    THEN [i \in DOMAIN d |-> IF d[i].key = k THEN [key |-> k, value |-> v] ELSE d[i]]
    ELSE Append(d, [key |-> k, value |-> v])

DictValues(d) == [i \in DOMAIN d |-> d[i].value]

\* list[:n] for n >= 0
Take(list, n) == SubSeq(list, 1, Min2(n, Len(list)))

---------------------------------------------------------------------------
(* scrape_category *)

\* The patience of the stall check (line 366).
Patience == 15

\* A for loop that never checks the target.
TargetReached_Never(count, target) == FALSE

\* line 341: if len(scraped_images) >= target_count: break
TargetReached(count, target) == count >= target

\* A guard that stores every extracted item.
IsNewKey_Always(d, k) == TRUE

\* line 351: img_data['image_url'] not in scraped_images
IsNewKey(d, k) == ~DictHas(d, k)

\* A while test without the scroll limit.
LoopContinues_Unlimited(count, target, scrolls, limit) == count < target

\* line 333: len(scraped_images) < target_count and scroll_count < max_scrolls
LoopContinues(count, target, scrolls, limit) == count < target /\ scrolls < limit

\* A stall check that stops one pass early.
PatienceExceeded_Early(n) == n >= Patience

\* line 366: if no_new_images_count > 15
PatienceExceeded(n) == n > Patience

\* lines 344-352: the dict after one element of img_elements
AfterElement(d, e) ==
    IF e.raises = "src" THEN d                         \* line 346 raises: continue
    ELSE IF e.src = None \/ Val(e.src) = <<>> THEN d   \* line 347: continue
    ELSE LET img_data == Extracted[e]
         IN  IF img_data # None /\ IsNewKey(d, Val(img_data).image_url)
             THEN DictSet(d, Val(img_data).image_url, Val(img_data))
             ELSE d

\* what the element offers to the collection: the extracted item, if any
Offer(e) ==
    IF e.raises = "src" \/ e.src = None \/ Val(e.src) = <<>> THEN None
    ELSE Extracted[e]

---------------------------------------------------------------------------
(* The classifier applied to bounded inputs *)

\* Dimension values: the thresholds of the code and their neighbours, the
\* preferred dimensions, the dimensions of the test suite, and values on the
\* tolerance boundary (1350/1000 = 27/20).
DimValues ==
    { -1080, 0, 1, 399, 400, 540, 600, 720, 800, 960, 1000, 1080, 1200,
      1350, 1440, 1620, 1728, 1920, 2000 }

DimArgs == {None} \cup { Some(n) : n \in DimValues }

NoResult == [compatible |-> FALSE, aspect_match |-> None, quality_score |-> -1,
             quality_tier |-> None]

ClsIdle ==
    /\ cls_pc = "idle" /\ cls_w = None /\ cls_h = None /\ cls_out = NoResult
    /\ cls_w2 = None /\ cls_h2 = None /\ cls_out2 = NoResult

UrlIdle ==
    url_pc = "idle" /\ url_in = <<>> /\ url_out = None /\ url_out2 = None

\* scrape_category has not been called
ScrIdle ==
    /\ pc = "idle" /\ target_count = 0 /\ max_scrolls = 0
    /\ scraped_images = <<>> /\ no_new_images_count = 0 /\ scroll_count = 0
    /\ initial_count = 0 /\ img_left = 0
    /\ category_data = None /\ scraped_data = <<>>
    /\ stop_reason = "none" /\ h_first_seen = <<>> /\ h_last_offer = None
    /\ h_pass_new = FALSE /\ h_empty_passes = 0 /\ h_passes = 0

ExtIdle == ext_pc = "idle" /\ ext_in = <<>> /\ ext_out = None /\ ext_norm = None

SsIdle == ss_pc = "idle" /\ ss_in = <<>> /\ ss_out = "none" /\ ss_err = FALSE

HkIdle == hk_pc = "idle" /\ hk_caption = <<>> /\ hk_max_length = 0 /\ hk_out = <<>>

CatIdle == cat_pc = "idle" /\ cat_hook = <<>> /\ cat_out = <<>> /\ cat_primary = <<>>

ProfIdle ==
    prof_pc = "idle" /\ prof_data = <<>> /\ prof_posts = <<>> /\ prof_result = <<>>

AggIdle ==
    /\ agg_pc = "idle" /\ agg_images = <<>> /\ agg_perfect = <<>>
    /\ agg_croppable = <<>> /\ agg_perfect_by = <<>> /\ agg_croppable_by = <<>>

\* none of the functions applied on their own has been called
RunIdle ==
    /\ run_pc = <<>> /\ run_target = <<>> /\ run_max_scrolls = <<>>
    /\ run_images = <<>> /\ run_no_new = <<>> /\ run_scroll = <<>>
    /\ run_data = <<>> /\ run_scraped_data = <<>> /\ h_run_passes = <<>>

TkIdle ==
    /\ tk_shared = FALSE
    /\ tk_file = <<>> /\ tk_data = <<>> /\ tk_pc = "idle" /\ tk_usernames = <<>>
    /\ tk_i = 0 /\ tk_results = <<>> /\ tk_result = <<>> /\ tk_clock = 0
    /\ h_nav_attempts = 0 /\ h_nav_ok = FALSE /\ h_failed = <<>> /\ h_cli = <<>>

CtlIdle == RunIdle /\ TkIdle

AuxIdle == ExtIdle /\ SsIdle /\ HkIdle /\ CatIdle /\ ProfIdle /\ AggIdle

InitClassify ==
    /\ cls_pc = "input"
    /\ cls_w \in DimArgs
    /\ cls_h \in DimArgs
    /\ cls_out = NoResult
    /\ cls_w2 = None /\ cls_h2 = None /\ cls_out2 = NoResult
    /\ UrlIdle
    /\ ScrIdle
    /\ AuxIdle
    /\ CtlIdle

Classify ==
    /\ cls_pc = "input"
    /\ cls_out' = is_social_media_compatible(cls_w, cls_h)
    /\ cls_pc' = "first"
    /\ UNCHANGED <<cls_w, cls_h, cls_w2, cls_h2, cls_out2, url_vars, scr_vars, aux_vars, ctl_vars>>

ClassifySecond ==
    /\ cls_pc = "first"
    /\ \E w \in DimArgs, h \in DimArgs :
          /\ cls_w2' = w
          /\ cls_h2' = h
          /\ cls_out2' = is_social_media_compatible(w, h)
    /\ cls_pc' = "both"
    /\ UNCHANGED <<cls_w, cls_h, cls_out, url_vars, scr_vars, aux_vars, ctl_vars>>

NextClassify == Classify \/ ClassifySecond

SpecClassify == InitClassify /\ [][NextClassify]_vars

---------------------------------------------------------------------------
(* The URL normaliser applied to bounded inputs *)

\* URLs are composed of a host, a bucket, a hash path, a file name and a
\* trailer, each taken from well-formed and malformed variants.
UrlHosts == { S_host, <<"h", "t", "t", "p", ":", "/", "/", "i", ".", "p", "i", "n", "i", "m", "g", ".", "c", "o", "m", "/">> }
UrlBuckets ==
    { <<"2", "3", "6", "x", "/">>,
      <<"4", "7", "4", "x", "/">>,
      <<"5", "6", "4", "x", "/">>,
      <<"7", "3", "6", "x", "/">>,
      <<"1", "4", "0", "x", "/">>,
      <<"6", "0", "x", "6", "0", "/">>,
      <<"7", "5", "x", "7", "5", "/">>,
      <<"o", "r", "i", "g", "i", "n", "a", "l", "s", "/">>,
      <<"v", "i", "d", "e", "o", "s", "/", "t", "h", "u", "m", "b", "n", "a", "i", "l", "s", "/", "o", "r", "i", "g", "i", "n", "a", "l", "s", "/">>,
      <<"x", "/">>,
      <<>> }
UrlHashes ==
    { <<"8", "a", "/", "0", "6", "/", "c", "7", "/">>,
      <<"8", "A", "/", "0", "6", "/", "c", "7", "/">>,
      <<"8", "a", "/", "0", "6", "/">> }
UrlFiles ==
    { <<"x", ".", "j", "p", "g">>,
      <<"x", ".", "0", "0", "0", "0", "0", "0", "0", ".", "j", "p", "g">>,
      <<"x", ".", "0", "0", "0", "0", "0", "0", "1", ".", "j", "p", "g">>,
      <<"o", "r", "i", "g", "i", "n", "a", "l", "s", ".", "j", "p", "g">>,
      <<>> }
UrlTrailers == { <<>>, <<"/", "t">> }

UrlInputs ==
    { h \o b \o x \o f \o t :
        h \in UrlHosts, b \in UrlBuckets, x \in UrlHashes, f \in UrlFiles,
        t \in UrlTrailers }

InitUrl ==
    /\ url_pc = "input"
    /\ url_in \in UrlInputs
    /\ url_out = None /\ url_out2 = None
    /\ ClsIdle
    /\ ScrIdle
    /\ AuxIdle
    /\ CtlIdle

Convert ==
    /\ url_pc = "input"
    /\ url_out' = convert_to_original_url(url_in)
    /\ url_pc' = "once"
    /\ UNCHANGED <<url_in, url_out2, cls_vars, scr_vars, aux_vars, ctl_vars>>

ConvertAgain ==
    /\ url_pc = "once"
    /\ url_out # None
    /\ url_out2' = convert_to_original_url(Val(url_out))
    /\ url_pc' = "twice"
    /\ UNCHANGED <<url_in, url_out, cls_vars, scr_vars, aux_vars, ctl_vars>>

NextUrl == Convert \/ ConvertAgain

SpecUrl == InitUrl /\ [][NextUrl]_vars

---------------------------------------------------------------------------
(* extract_image_data applied to bounded inputs *)

\* what get_image_dimensions answers: nothing, a portrait image, a tiny image
ExtractDims == { None, <<1080, 1920>>, <<100, 100>> }

\* every URL of UrlInputs as the src of an element, and the elements of the page
ExtractInputs ==
    { Element(Some(u), Some("cat"), Some("/pin/1/"), d, "no") :
        u \in UrlInputs, d \in ExtractDims } \cup Elements

InitExtract ==
    /\ ext_pc = "input"
    /\ ext_in \in ExtractInputs
    /\ ext_out = None /\ ext_norm = None
    /\ ClsIdle /\ UrlIdle /\ ScrIdle
    /\ SsIdle /\ HkIdle /\ CatIdle /\ ProfIdle /\ AggIdle
    /\ CtlIdle

\* extract_image_data(img_element)
ExtractElement ==
    /\ ext_pc = "input"
    /\ ext_out' = extract_image_data(ext_in)
    /\ ext_pc' = "extracted"
    /\ UNCHANGED <<ext_in, ext_norm, cls_vars, url_vars, scr_vars,
                   ss_vars, hk_vars, cat_vars, prof_vars, agg_vars, ctl_vars>>

\* convert_to_original_url(src) on the same src, outside extract_image_data
NormaliseSrc ==
    /\ ext_pc = "extracted"
    /\ ext_in.src # None
    /\ ext_norm' = convert_to_original_url(Val(ext_in.src))
    /\ ext_pc' = "both"
    /\ UNCHANGED <<ext_in, ext_out, cls_vars, url_vars, scr_vars,
                   ss_vars, hk_vars, cat_vars, prof_vars, agg_vars, ctl_vars>>

NextExtract == ExtractElement \/ NormaliseSrc

SpecExtract == InitExtract /\ [][NextExtract]_vars

---------------------------------------------------------------------------
(* scrape_category as a state machine *)

\* Bounds of the runs explored.
MaxTarget == 2          \* target_count ranges over 0..MaxTarget
MaxScrolls == 17        \* the largest max_scrolls
MaxImgs == 2            \* find_elements returns at most MaxImgs elements

\* max_scrolls: no pass, too few passes to stall, just enough passes to stall
\* on the last one, and one more
ScrollChoices == {0, 2, MaxScrolls - 1, MaxScrolls}

Init ==
    /\ ScrIdle
    /\ ClsIdle
    /\ UrlIdle
    /\ AuxIdle
    /\ CtlIdle

\* lines 299-331: the call, up to the first test of the while loop
StartScrape ==
    /\ pc = "idle"
    /\ target_count' \in 0..MaxTarget
    /\ max_scrolls' \in ScrollChoices
    /\ scraped_images' = <<>>
    /\ no_new_images_count' = 0
    /\ scroll_count' = 0
    /\ pc' = "while"
    /\ h_first_seen' = <<>> /\ h_empty_passes' = 0 /\ h_passes' = 0
    /\ UNCHANGED <<initial_count, img_left, category_data, scraped_data, stop_reason,
                   h_last_offer, h_pass_new, cls_vars, url_vars, aux_vars, ctl_vars>>

\* lines 333-338: the while test and, if it passes, find_elements
BeginPass ==
    /\ pc = "while"
    /\ IF LoopContinues(Len(scraped_images), target_count, scroll_count, max_scrolls)
       THEN /\ img_left' \in 0..MaxImgs
            /\ initial_count' = Len(scraped_images)
            /\ pc' = "for"
            /\ h_pass_new' = FALSE
            /\ h_passes' = h_passes + 1
            /\ UNCHANGED stop_reason
       ELSE /\ pc' = "store"
            /\ stop_reason' = IF Len(scraped_images) < target_count
                              THEN "max_scrolls" ELSE "target"
            /\ UNCHANGED <<img_left, initial_count, h_pass_new, h_passes>>
    /\ UNCHANGED <<target_count, max_scrolls, scraped_images, no_new_images_count,
                   scroll_count, category_data, scraped_data, h_first_seen,
                   h_last_offer, h_empty_passes, cls_vars, url_vars, aux_vars, ctl_vars>>

\* lines 340-361: one iteration of the for loop
ProcessImg ==
    /\ pc = "for"
    /\ img_left > 0
    /\ ~TargetReached(Len(scraped_images), target_count)
    /\ \E e \in Elements :
          LET offer == Offer(e)
          IN  /\ scraped_images' = AfterElement(scraped_images, e)
              /\ h_last_offer' = offer
              /\ h_first_seen' =
                    IF offer # None
                       /\ \A i \in DOMAIN h_first_seen :
                             h_first_seen[i].image_url # Val(offer).image_url
                    THEN Append(h_first_seen, Val(offer))
                    ELSE h_first_seen
    /\ h_pass_new' =
          (h_pass_new \/ \E i \in DOMAIN scraped_images' :
                            ~DictHas(scraped_images, scraped_images'[i].key))
    /\ img_left' = img_left - 1
    /\ UNCHANGED <<pc, target_count, max_scrolls, no_new_images_count, scroll_count,
                   initial_count, category_data, scraped_data, stop_reason,
                   h_empty_passes, h_passes, cls_vars, url_vars, aux_vars, ctl_vars>>

\* lines 340-342 and 363-381: the for loop ends (exhausted, or the break of
\* line 342), the stall check, the scroll
EndPass ==
    /\ pc = "for"
    /\ img_left = 0 \/ TargetReached(Len(scraped_images), target_count)
    /\ h_empty_passes' = IF h_pass_new THEN 0 ELSE h_empty_passes + 1
    /\ h_last_offer' = None
    /\ IF Len(scraped_images) = initial_count
       THEN /\ no_new_images_count' = no_new_images_count + 1
            /\ IF PatienceExceeded(no_new_images_count + 1)
               THEN /\ pc' = "store"
                    /\ stop_reason' = "stall"
                    /\ UNCHANGED scroll_count
               ELSE /\ pc' = "while"
                    /\ scroll_count' = scroll_count + 1
                    /\ UNCHANGED stop_reason
       ELSE /\ no_new_images_count' = 0
            /\ pc' = "while"
            /\ scroll_count' = scroll_count + 1
            /\ UNCHANGED stop_reason
    /\ UNCHANGED <<target_count, max_scrolls, scraped_images, initial_count, img_left,
                   category_data, scraped_data, h_first_seen, h_pass_new, h_passes,
                   cls_vars, url_vars, aux_vars, ctl_vars>>

\* lines 383-397
StoreResults ==
    /\ pc = "store"
    /\ category_data' =
          Some([category |-> "category",
                images |-> Take(DictValues(scraped_images), target_count),
                total_found |-> Len(scraped_images)])
    /\ scraped_data' = Append(scraped_data, Val(category_data'))
    /\ pc' = "done"
    /\ UNCHANGED <<target_count, max_scrolls, scraped_images, no_new_images_count,
                   scroll_count, initial_count, img_left, stop_reason, h_first_seen,
                   h_last_offer, h_pass_new, h_empty_passes, h_passes,
                   cls_vars, url_vars, aux_vars, ctl_vars>>

Next == StartScrape \/ BeginPass \/ ProcessImg \/ EndPass \/ StoreResults

Spec == Init /\ [][Next]_vars

\* The call runs on: every statement of scrape_category is executed in turn
\* and each browser call and sleep returns.
SpecFair == Spec /\ WF_vars(Next)

---------------------------------------------------------------------------
(* tiktok-scraper/data_extractor.py : Python values *)

\* A Python value: its kind ("dict", "list", "str", "int", "none", or "object"
\* for a value json cannot serialise, such as a set), the text of a str or an
\* int, the items of a list, the (key, value) entries of a dict in order.
PyStr(s) == [kind |-> "str", s |-> s, items |-> <<>>, fields |-> <<>>]
PyInt(s) == [kind |-> "int", s |-> s, items |-> <<>>, fields |-> <<>>]
PyNone == [kind |-> "none", s |-> <<>>, items |-> <<>>, fields |-> <<>>]
PyObject == [kind |-> "object", s |-> <<>>, items |-> <<>>, fields |-> <<>>]
PyList(items) == [kind |-> "list", s |-> <<>>, items |-> items, fields |-> <<>>]
PyDict(fields) == [kind |-> "dict", s |-> <<>>, items |-> <<>>, fields |-> fields]
Field(key, val) == [key |-> key, val |-> val]

UpperLetters == <<"A", "B", "C", "D", "E", "F", "G", "H", "I", "J", "K", "L", "M", "N", "O", "P", "Q", "R", "S", "T", "U", "V", "W", "X", "Y", "Z">>
LowerLetters == <<"a", "b", "c", "d", "e", "f", "g", "h", "i", "j", "k", "l", "m", "n", "o", "p", "q", "r", "s", "t", "u", "v", "w", "x", "y", "z">>

\* str.lower()
Lower(s) ==
    [i \in 1..Len(s) |->
        IF \E k \in 1..26 : UpperLetters[k] = s[i]
        THEN LowerLetters[CHOOSE k \in 1..26 : UpperLetters[k] = s[i]]
        ELSE s[i]]

\* str.count(pat), for a pattern that cannot overlap itself
Count(s, pat) ==
    Cardinality({ i \in 1..(Len(s) - Len(pat) + 1) : SubSeq(s, i, i + Len(pat) - 1) = pat })

\* does json.dumps(v) succeed
RECURSIVE Serialisable(_)
Serialisable(v) ==
    /\ v.kind # "object"
    /\ \A i \in DOMAIN v.items : Serialisable(v.items[i])
    /\ \A i \in DOMAIN v.fields : Serialisable(v.fields[i].val)

\* json.dumps(v) with the default separators
RECURSIVE Dumps(_)
RECURSIVE DumpsItems(_, _)
RECURSIVE DumpsFields(_, _)
DumpsItems(items, i) ==
    IF i > Len(items) THEN <<>>
    ELSE (IF i > 1 THEN <<",", " ">> ELSE <<>>) \o Dumps(items[i]) \o DumpsItems(items, i + 1)
DumpsFields(fields, i) ==
    IF i > Len(fields) THEN <<>>
    ELSE (IF i > 1 THEN <<",", " ">> ELSE <<>>)
         \o <<"\"">> \o fields[i].key \o <<"\"", ":", " ">> \o Dumps(fields[i].val)
         \o DumpsFields(fields, i + 1)
Dumps(v) ==
    CASE v.kind = "str" -> <<"\"">> \o v.s \o <<"\"">>
      [] v.kind = "int" -> v.s
      [] v.kind = "none" -> <<"n", "u", "l", "l">>
      [] v.kind = "list" -> <<"[">> \o DumpsItems(v.items, 1) \o <<"]">>
      [] v.kind = "dict" -> <<"{">> \o DumpsFields(v.fields, 1) \o <<"}">>

\* str(v), for a str, an int, None and a list of str
RECURSIVE ReprItems(_, _)
ReprItems(items, i) ==
    IF i > Len(items) THEN <<>>
    ELSE (IF i > 1 THEN <<",", " ">> ELSE <<>>)
         \o <<"'">> \o items[i].s \o <<"'">> \o ReprItems(items, i + 1)
Str(v) ==
    CASE v.kind = "str" -> v.s
      [] v.kind = "int" -> v.s
      [] v.kind = "none" -> <<"N", "o", "n", "e">>
      [] v.kind = "list" -> <<"[">> \o ReprItems(v.items, 1) \o <<"]">>

\* key in d, d.get(key) as an option
HasKey(d, key) == \E i \in DOMAIN d.fields : d.fields[i].key = key
Get(d, key) ==
    IF HasKey(d, key)
    THEN Some(d.fields[CHOOSE i \in DOMAIN d.fields : d.fields[i].key = key].val)
    ELSE None

---------------------------------------------------------------------------
(* DataExtractor.is_slideshow_post *)

S_type == <<"t", "y", "p", "e">>
S_images == <<"i", "m", "a", "g", "e", "s">>
S_imageurl == <<"i", "m", "a", "g", "e", "u", "r", "l">>
S_imageurls == <<"i", "m", "a", "g", "e", "u", "r", "l", "s">>

\* DataExtractor.__init__
slideshow_indicators ==
    << <<"p", "h", "o", "t", "o">>,
       <<"s", "l", "i", "d", "e", "s", "h", "o", "w">>,
       <<"c", "a", "r", "o", "u", "s", "e", "l">>,
       <<"s", "w", "i", "p", "e">>,
       <<"a", "l", "b", "u", "m">>,
       <<"I", "m", "a", "g", "e", "P", "o", "s", "t">>,
       <<"m", "u", "l", "t", "i">>,
       <<"g", "a", "l", "l", "e", "r", "y">> >>

\* line 76: "type" in post_data, which raises for a value that is no container
TypeIn(post_data) ==
    CASE post_data.kind = "dict" -> HasKey(post_data, S_type)
      [] post_data.kind = "list" ->
            \E i \in DOMAIN post_data.items : post_data.items[i] = PyStr(S_type)
      [] post_data.kind = "str" -> Contains(post_data.s, S_type)

\* lines 61-85, the body of the try statement: "True", "False", or "raised"
\* when a statement raises (json.dumps on a value it cannot serialise, the in
\* operator on an int or None, the get method on a list or a str)
SlideshowBody(post_data) ==
    IF ~Serialisable(post_data) THEN "raised"
    ELSE LET post_str == Lower(Dumps(post_data))
         IN  IF \E i \in DOMAIN slideshow_indicators :
                    Contains(post_str, Lower(slideshow_indicators[i]))
             THEN "True"
             ELSE IF (Contains(post_str, S_imageurls) \/ Contains(post_str, S_imageurl))
                     /\ Count(post_str, S_imageurl) > 1
             THEN "True"
             ELSE IF post_data.kind \in {"int", "none"} THEN "raised"
             ELSE IF TypeIn(post_data) /\ post_data.kind # "dict" THEN "raised"
             ELSE IF TypeIn(post_data)
                     /\ \E i \in DOMAIN slideshow_indicators :
                           Contains(Lower(Str(Val(Get(post_data, S_type)))),
                                    slideshow_indicators[i])
             THEN "True"
             ELSE IF post_data.kind # "dict" THEN "raised"
             ELSE IF Get(post_data, S_images) # None
                     /\ Val(Get(post_data, S_images)).kind = "list"
                     /\ Len(Val(Get(post_data, S_images)).items) > 1
             THEN "True"
             ELSE "False"

\* A method without the except clause.
is_slideshow_post_NoHandler(post_data) == SlideshowBody(post_data)

\* lines 57-89: the try statement with its handler, which returns False
is_slideshow_post(post_data) ==
    IF SlideshowBody(post_data) = "raised" THEN "False" ELSE SlideshowBody(post_data)

---------------------------------------------------------------------------
(* is_slideshow_post applied to bounded inputs *)

Img_a == PyStr(<<"a", ".", "j", "p", "g">>)
Img_b == PyStr(<<"b", ".", "j", "p", "g">>)

\* the entries a post may have under each key, none included
TypeEntries ==
    { <<>>, <<Field(S_type, PyStr(<<"v", "i", "d", "e", "o">>))>>, <<Field(S_type, PyStr(<<"I", "m", "a", "g", "e", "P", "o", "s", "t">>))>>,
      <<Field(S_type, PyInt(<<"2">>))>>, <<Field(S_type, PyNone)>> }
ImagesEntries ==
    { <<>>, <<Field(S_images, PyList(<<>>))>>, <<Field(S_images, PyList(<<Img_a>>))>>,
      <<Field(S_images, PyList(<<Img_a, Img_b>>))>>,
      <<Field(S_images, PyStr(<<"a", "b">>))>> }
ImageUrlsEntries ==
    { <<>>, <<Field(<<"i", "m", "a", "g", "e", "U", "r", "l", "s">>, PyList(<<Img_a>>))>>,
      <<Field(<<"i", "m", "a", "g", "e", "U", "r", "l", "s">>, PyList(<<Img_a, Img_b>>))>> }
CoverEntries ==
    { <<>>, <<Field(<<"i", "m", "a", "g", "e", "U", "r", "l">>, Img_a)>>,
      <<Field(<<"i", "m", "a", "g", "e", "U", "r", "l">>, Img_a), Field(<<"c", "o", "v", "e", "r", "I", "m", "a", "g", "e", "U", "r", "l">>, Img_b)>> }
DescEntries ==
    { <<>>, <<Field(<<"d", "e", "s", "c">>, PyStr(<<"h", "i">>))>>, <<Field(<<"d", "e", "s", "c">>, PyStr(<<"m", "y", " ", "a", "l", "b", "u", "m">>))>> }

\* posts as dicts, and the values that are no dict or cannot be serialised
SlideshowInputs ==
    { PyDict(t \o i \o u \o c \o d) :
        t \in TypeEntries, i \in ImagesEntries, u \in ImageUrlsEntries,
        c \in CoverEntries, d \in DescEntries }
    \cup { PyList(<<>>), PyList(<<PyStr(S_type)>>), PyList(<<PyStr(<<"c", "a", "r", "o", "u", "s", "e", "l">>)>>),
           PyList(<<Img_a, Img_b>>),
           PyStr(<<"x">>), PyStr(S_type), PyStr(<<"s", "l", "i", "d", "e", "s", "h", "o", "w">>), PyInt(<<"5">>), PyNone,
           PyObject, PyDict(<<Field(S_images, PyList(<<PyObject, PyObject>>))>>),
           PyDict(<<Field(S_type, PyStr(<<"p", "h", "o", "t", "o">>)), Field(<<"x">>, PyObject)>>) }

InitSlideshow ==
    /\ ss_pc = "input"
    /\ ss_in \in SlideshowInputs
    /\ ss_out = "none" /\ ss_err = FALSE
    /\ ClsIdle /\ UrlIdle /\ ScrIdle
    /\ ExtIdle /\ HkIdle /\ CatIdle /\ ProfIdle /\ AggIdle
    /\ CtlIdle

\* is_slideshow_post(post_data)
CheckSlideshow ==
    /\ ss_pc = "input"
    /\ ss_out' = is_slideshow_post(ss_in)
    /\ ss_err' = (SlideshowBody(ss_in) = "raised")
    /\ ss_pc' = "done"
    /\ UNCHANGED <<ss_in, cls_vars, url_vars, scr_vars,
                   ext_vars, hk_vars, cat_vars, prof_vars, agg_vars, ctl_vars>>

NextSlideshow == CheckSlideshow

SpecSlideshow == InitSlideshow /\ [][NextSlideshow]_vars

---------------------------------------------------------------------------
(* DataExtractor.extract_hook *)

Whitespace == { " ", "\n", "\t", "\r" }

\* str.strip()
RECURSIVE LStrip(_)
LStrip(s) == IF s # <<>> /\ Head(s) \in Whitespace THEN LStrip(Tail(s)) ELSE s
RECURSIVE RStrip(_)
RStrip(s) ==
    IF s # <<>> /\ s[Len(s)] \in Whitespace THEN RStrip(SubSeq(s, 1, Len(s) - 1)) ELSE s
Strip(s) == RStrip(LStrip(s))

\* s.find(pat): the index, counted from 0, of the first occurrence, or -1
Find(s, pat) ==
    LET starts == { i \in 1..(Len(s) - Len(pat) + 1) : SubSeq(s, i, i + Len(pat) - 1) = pat }
    IN  IF starts = {} THEN -1
        ELSE (CHOOSE i \in starts : \A j \in starts : i <= j) - 1

\* A search that also looks at the index end.
RFind_Through(s, c, end) ==
    LET at == { i \in 1..Min2(Len(s), end + 1) : s[i] = c }
    IN  IF at = {} THEN -1
        ELSE (CHOOSE i \in at : \A j \in at : i >= j) - 1

\* s.rfind(c, 0, end) for a character c: the last index below end, or -1
RFind(s, c, end) ==
    LET at == { i \in 1..Min2(Len(s), end) : s[i] = c }
    IN  IF at = {} THEN -1
        ELSE (CHOOSE i \in at : \A j \in at : i >= j) - 1

\* A slice that keeps one more character.
Prefix_OneMore(s, n) == SubSeq(s, 1, Min2(n + 1, Len(s)))

\* s[:n]
Prefix(s, n) == SubSeq(s, 1, Min2(n, Len(s)))

S_ellipsis == <<".", ".", ".">>

\* A filter that also accepts a break at index 0.
ValidBreak_FromZero(bp, max_length) == 0 <= bp /\ bp < max_length

\* line 180: 0 < bp < max_length
ValidBreak(bp, max_length) == 0 < bp /\ bp < max_length

\* lines 162-196
extract_hook(caption, max_length) ==
    IF caption = <<>> THEN <<>>
    ELSE LET clean_caption == Strip(caption)
             break_points == << Find(clean_caption, <<"\n">>),
                                Find(clean_caption, <<"!">>),
                                Find(clean_caption, <<"?">>),
                                Find(clean_caption, S_ellipsis),
                                Find(clean_caption, <<"#">>) >>
             valid_breaks == { break_points[i] : i \in
                                 { j \in 1..5 : ValidBreak(break_points[j], max_length) } }
             space_before == RFind(clean_caption, " ", max_length)
         IN  IF valid_breaks # {}
             THEN LET hook_end == (CHOOSE bp \in valid_breaks :
                                      \A other \in valid_breaks : bp <= other) + 1
                  IN  Strip(Prefix(clean_caption, hook_end))
             ELSE IF Len(clean_caption) <= max_length THEN clean_caption
             ELSE IF space_before > 0
             THEN Strip(Prefix(clean_caption, space_before)) \o S_ellipsis
             ELSE Strip(Prefix(clean_caption, max_length)) \o S_ellipsis

---------------------------------------------------------------------------
(* extract_hook applied to bounded inputs *)

MaxCaption == 5         \* the longest caption

\* a letter, the three kinds of whitespace, and the characters of the break points
CaptionChars == { "a", " ", "\n", "\t", "!", "?", ".", "#" }

Captions == UNION { [1..n -> CaptionChars] : n \in 0..MaxCaption }

\* line 162: the default of max_length
DefaultMaxLength == 50

\* the least max_length, one shorter than the captions, and the default
MaxLengths == { 1, 3, DefaultMaxLength }

InitHook ==
    /\ hk_pc = "input"
    /\ hk_caption \in Captions
    /\ hk_max_length \in MaxLengths
    /\ hk_out = <<>>
    /\ ClsIdle /\ UrlIdle /\ ScrIdle
    /\ ExtIdle /\ SsIdle /\ CatIdle /\ ProfIdle /\ AggIdle
    /\ CtlIdle

\* extract_hook(caption, max_length)
ExtractHook ==
    /\ hk_pc = "input"
    /\ hk_out' = extract_hook(hk_caption, hk_max_length)
    /\ hk_pc' = "done"
    /\ UNCHANGED <<hk_caption, hk_max_length, cls_vars, url_vars, scr_vars,
                   ext_vars, ss_vars, cat_vars, prof_vars, agg_vars, ctl_vars>>

NextHook == ExtractHook

SpecHook == InitHook /\ [][NextHook]_vars

---------------------------------------------------------------------------
(* tiktok-scraper/hook_analyzer.py : HookAnalyzer.categorize_hook *)

\* HookAnalyzer.__init__ : the categories in declaration order.  Weights are
\* in tenths.  A regular expression is one of four kinds: "prefix" (^(a|b|..),
\* where ^\d+ is the ten digits), "contains" (a|b|.., where reasons? is
\* reason), "letter" (^[A-Z], case ignored) and "suffix" (!+$).  A character
\* outside ASCII is written as its code point.
hook_patterns ==
    << [category |-> "question", weight |-> 15,
        patterns |-> << [kind |-> "prefix", alts |-> { <<"w", "h", "a", "t">>, <<"w", "h", "y">>, <<"h", "o", "w">>, <<"w", "h", "e", "n">>, <<"w", "h", "e", "r", "e">>, <<"w", "h", "o">>, <<"w", "h", "i", "c", "h">>, <<"c", "a", "n">>, <<"d", "o">>, <<"d", "o", "e", "s">>, <<"d", "i", "d">>, <<"i", "s">>, <<"a", "r", "e">>, <<"w", "i", "l", "l">>, <<"w", "o", "u", "l", "d">>, <<"s", "h", "o", "u", "l", "d">> }],
                      [kind |-> "contains", alts |-> { <<"?">> }] >>],
       [category |-> "statement", weight |-> 10,
        patterns |-> << [kind |-> "prefix", alts |-> { <<"i">>, <<"y", "o", "u">>, <<"w", "e">>, <<"t", "h", "e", "y">>, <<"t", "h", "i", "s">>, <<"t", "h", "a", "t">>, <<"h", "e", "r", "e">> }],
                      [kind |-> "letter", alts |-> {}] >>],
       [category |-> "story", weight |-> 13,
        patterns |-> << [kind |-> "prefix", alts |-> { <<"o", "n", "c", "e">>, <<"y", "e", "s", "t", "e", "r", "d", "a", "y">>, <<"t", "o", "d", "a", "y">>, <<"l", "a", "s", "t">>, <<"w", "h", "e", "n", " ", "i">>, <<"s", "t", "o", "r", "y", " ", "t", "i", "m", "e">>, <<"p", "o", "v">>, <<"i", "m", "a", "g", "i", "n", "e">> }],
                      [kind |-> "contains", alts |-> { <<"s", "t", "o", "r", "y">> }],
                      [kind |-> "contains", alts |-> { <<"t", "i", "m", "e">> }] >>],
       [category |-> "list", weight |-> 14,
        patterns |-> << [kind |-> "prefix", alts |-> { <<"0">>, <<"1">>, <<"2">>, <<"3">>, <<"4">>, <<"5">>, <<"6">>, <<"7">>, <<"8">>, <<"9">>, <<"t", "o", "p">>, <<"b", "e", "s", "t">>, <<"w", "o", "r", "s", "t">> }],
                      [kind |-> "contains", alts |-> { <<"r", "e", "a", "s", "o", "n">> }],
                      [kind |-> "contains", alts |-> { <<"w", "a", "y">> }],
                      [kind |-> "contains", alts |-> { <<"t", "h", "i", "n", "g">> }],
                      [kind |-> "contains", alts |-> { <<"t", "i", "p">> }] >>],
       [category |-> "challenge", weight |-> 12,
        patterns |-> << [kind |-> "contains", alts |-> { <<"c", "h", "a", "l", "l", "e", "n", "g", "e">> }],
                      [kind |-> "contains", alts |-> { <<"t", "r", "y">> }],
                      [kind |-> "contains", alts |-> { <<"c", "a", "n", " ", "y", "o", "u">> }],
                      [kind |-> "contains", alts |-> { <<"b", "e", "t", " ", "y", "o", "u">> }],
                      [kind |-> "contains", alts |-> { <<"d", "a", "r", "e">> }] >>],
       [category |-> "emotional", weight |-> 16,
        patterns |-> << [kind |-> "contains", alts |-> { <<"n", "e", "v", "e", "r">>, <<"a", "l", "w", "a", "y", "s">>, <<"e", "v", "e", "r", "y", "o", "n", "e">>, <<"n", "o", " ", "o", "n", "e">>, <<"m", "u", "s", "t">>, <<"n", "e", "e", "d">> }],
                      [kind |-> "suffix", alts |-> { <<"!">> }],
                      [kind |-> "contains", alts |-> { <<"U+00F0", "U+0178", "U+02DC", "U+00B1">>, <<"U+00F0", "U+0178", "U+02DC", "U+00AD">>, <<"U+00F0", "U+0178", "U+00A4", "U+00AF">>, <<"U+00F0", "U+0178", "U+2019", "U+20AC">>, <<"U+00F0", "U+0178", "U+201D", "U+00A5">> }] >>],
       [category |-> "educational", weight |-> 13,
        patterns |-> << [kind |-> "contains", alts |-> { <<"l", "e", "a", "r", "n">> }],
                      [kind |-> "contains", alts |-> { <<"t", "e", "a", "c", "h">> }],
                      [kind |-> "contains", alts |-> { <<"e", "x", "p", "l", "a", "i", "n">> }],
                      [kind |-> "contains", alts |-> { <<"g", "u", "i", "d", "e">> }],
                      [kind |-> "contains", alts |-> { <<"t", "u", "t", "o", "r", "i", "a", "l">> }],
                      [kind |-> "contains", alts |-> { <<"h", "o", "w", " ", "t", "o">> }] >>],
       [category |-> "controversial", weight |-> 17,
        patterns |-> << [kind |-> "contains", alts |-> { <<"u", "n", "p", "o", "p", "u", "l", "a", "r", " ", "o", "p", "i", "n", "i", "o", "n">> }],
                      [kind |-> "contains", alts |-> { <<"h", "o", "t", " ", "t", "a", "k", "e">> }],
                      [kind |-> "contains", alts |-> { <<"c", "o", "n", "t", "r", "o", "v", "e", "r", "s", "i", "a", "l">> }],
                      [kind |-> "contains", alts |-> { <<"n", "o", "b", "o", "d", "y", " ", "t", "a", "l", "k", "s", " ", "a", "b", "o", "u", "t">> }] >>] >>

\* line 73: re.search(pattern, hook_lower, re.IGNORECASE), on a lower-cased
\* and stripped text
Matches(p, s) ==
    CASE p.kind = "prefix" -> \E a \in p.alts : StartsWith(s, a)
      [] p.kind = "contains" -> \E a \in p.alts : Contains(s, a)
      [] p.kind = "letter" ->
            s # <<>> /\ \E k \in 1..26 : s[1] = LowerLetters[k]
      [] p.kind = "suffix" -> s # <<>> /\ s[Len(s)] = "!"

\* lines 69-74: the score of a category, in tenths
CategoryScore(c, hook_lower) ==
    c.weight * Cardinality({ i \in DOMAIN c.patterns : Matches(c.patterns[i], hook_lower) })

\* Scores kept as they are summed.
CappedScores_Uncapped(hook_lower) ==
    LET scored == SelectSeq(hook_patterns, LAMBDA c : CategoryScore(c, hook_lower) > 0)
    IN  [i \in DOMAIN scored |->
            [category |-> scored[i].category,
             score |-> CategoryScore(scored[i], hook_lower)]]

\* lines 76-77: the categories that scored, with their scores capped at 1.0
CappedScores(hook_lower) ==
    LET scored == SelectSeq(hook_patterns, LAMBDA c : CategoryScore(c, hook_lower) > 0)
    IN  [i \in DOMAIN scored |->
            [category |-> scored[i].category,
             score |-> Min2(CategoryScore(scored[i], hook_lower), 10)]]

RECURSIVE SumScores(_, _)
SumScores(scores, i) ==
    IF i > Len(scores) THEN 0 ELSE scores[i].score + SumScores(scores, i + 1)

\* Scores returned as they are, in tenths.
Weight_Unnormalised(v, total) == <<v, 10>>

\* line 82: v / total, as the fraction <<numerator, denominator>>
Weight(v, total) == <<v, total>>

\* lines 60-86: the dict returned, as its entries in insertion order
categorize_hook(hook) ==
    IF hook = <<>> THEN << [category |-> "unknown", weight |-> <<1, 1>>] >>
    ELSE LET hook_lower == Strip(Lower(hook))
             scores == CappedScores(hook_lower)
             total == SumScores(scores, 1)
         IN  IF scores # <<>>
             THEN [i \in DOMAIN scores |->
                     [category |-> scores[i].category,
                      weight |-> Weight(scores[i].score, total)]]
             ELSE << [category |-> "general", weight |-> <<1, 1>>] >>

\* is the fraction a greater than the fraction b (denominators positive)
FractionGreater(a, b) == a[1] * b[2] > b[1] * a[2]

\* max(categories.items(), key=lambda x: x[1]): the index of the first entry
\* of the greatest weight among the entries from i on, best being the index
\* kept so far
RECURSIVE MaxByWeight(_, _, _)
MaxByWeight(categories, i, best) ==
    IF i > Len(categories) THEN best
    ELSE MaxByWeight(categories, i + 1,
                     IF FractionGreater(categories[i].weight, categories[best].weight)
                     THEN i ELSE best)

\* generate_training_data line 186
primary_category(categories) ==
    IF categories # <<>> THEN categories[MaxByWeight(categories, 2, 1)].category
    ELSE "unknown"

\* sum(x for n times x = 1.0 / n) in double arithmetic, added left to right:
\* how many units of 2^-53 the result lies below 1.0, for n = 1..8
\* (0.9999999999999999 for six equal weights, 0.9999999999999998 for seven)
EqualWeightsDeficit == <<0, 0, 0, 0, 0, 1, 2, 0>>

---------------------------------------------------------------------------
(* categorize_hook applied to bounded inputs *)

HookStarts == { <<>>,
                <<"H", "o", "w", " ", "t", "o", " ">>,
                <<"I", " ">>,
                <<"5", " ">>,
                <<"P", "O", "V", " ">>,
                <<"T", "r", "y", " ">>,
                <<".", ".", ".">>,
                <<" ">>,
                <<"u", "n", "p", "o", "p", "u", "l", "a", "r", " ", "o", "p", "i", "n", "i", "o", "n", " ">>,
                <<"W", "h", "y", " ", "m", "u", "s", "t", " ">>,
                <<"H", "o", "w", " ", "t", "o", " ", "t", "r", "y", " ">> }
HookWords == { <<>>,
               <<"l", "e", "a", "r", "n">>,
               <<"s", "t", "o", "r", "y", " ", "t", "i", "m", "e">>,
               <<"w", "a", "y", "s">>,
               <<"n", "e", "v", "e", "r">>,
               <<"x">>,
               <<"h", "o", "t", " ", "t", "a", "k", "e">>,
               <<"d", "a", "r", "e", " ", "t", "i", "p", "s">> }
HookEnds == { <<>>, <<"!">>, <<"?">>, <<" ">> }

Hooks == { a \o w \o e : a \in HookStarts, w \in HookWords, e \in HookEnds }

InitCategorize ==
    /\ cat_pc = "input"
    /\ cat_hook \in Hooks
    /\ cat_out = <<>>
    /\ cat_primary = None
    /\ ClsIdle /\ UrlIdle /\ ScrIdle
    /\ ExtIdle /\ SsIdle /\ HkIdle /\ ProfIdle /\ AggIdle
    /\ CtlIdle

\* categorize_hook(hook)
Categorize ==
    /\ cat_pc = "input"
    /\ cat_out' = categorize_hook(cat_hook)
    /\ cat_pc' = "done"
    /\ UNCHANGED <<cat_hook, cat_primary, cls_vars, url_vars, scr_vars,
                   ext_vars, ss_vars, hk_vars, prof_vars, agg_vars, ctl_vars>>

\* generate_training_data lines 177-187, for a post whose hook is not empty
PickPrimary ==
    /\ cat_pc = "done"
    /\ cat_hook # <<>>
    /\ cat_primary' = Some(primary_category(cat_out))
    /\ cat_pc' = "picked"
    /\ UNCHANGED <<cat_hook, cat_out, cls_vars, url_vars, scr_vars,
                   ext_vars, ss_vars, hk_vars, prof_vars, agg_vars, ctl_vars>>

NextCategorize == Categorize \/ PickPrimary

SpecCategorize == InitCategorize /\ [][NextCategorize]_vars

---------------------------------------------------------------------------
(* DataExtractor.extract_profile_posts, filter_slideshow_posts and the part *)
(* of TikTokScraper.scrape_profile that calls them                          *)

\* is v truthy, for a str, an int written in decimal, None
Truthy(v) == v.kind \in {"str", "int"} /\ v.s # <<>> /\ v.s # <<"0">>

\* line 110: post.get("id") or post.get("itemId") or post.get("video_id")
PostId(post) ==
    LET id == Get(post, <<"i", "d">>)
        itemId == Get(post, <<"i", "t", "e", "m", "I", "d">>)
        video_id == Get(post, <<"v", "i", "d", "e", "o", "_", "i", "d">>)
    IN  IF id # None /\ Truthy(Val(id)) THEN id
        ELSE IF itemId # None /\ Truthy(Val(itemId)) THEN itemId
        ELSE video_id

\* lines 91-144: the fields of the extracted record that identify the post
\* and tell whether it is a slideshow
extract_post_data(post) ==
    [id |-> PostId(post), is_slideshow |-> is_slideshow_post(post) = "True"]

\* An option of a list as a list.
ListOf(o) == IF o = None THEN <<>> ELSE Val(o)

\* lines 402-406: the loop over every "webapp." section of the scope that has
\* a list itemList, the two sections read before included
OtherSections(d) == ListOf(d.user_detail) \o ListOf(d.video_list) \o ListOf(d.other)

\* lines 363-427.  universal_data is given by the list (an option) found at
\* each place the code looks at:
\*   __DEFAULT_SCOPE__["webapp.user-detail"]["userInfo"]["itemList"]  user_info
\*   __DEFAULT_SCOPE__["webapp.user-detail"]["itemList"]              user_detail
\*   __DEFAULT_SCOPE__["webapp.video-list"]["itemList"]               video_list
\*   __DEFAULT_SCOPE__["webapp.<other>"]["itemList"]                  other
\*   ItemModule (its values)                                          item_module
\*   items                                                            items
extract_profile_posts(d) ==
    ListOf(d.user_info) \o ListOf(d.user_detail) \o ListOf(d.video_list)
    \o OtherSections(d) \o ListOf(d.item_module) \o ListOf(d.items)

\* lines 429-440
filter_slideshow_posts(posts) ==
    LET slideshows == SelectSeq(posts, LAMBDA post : is_slideshow_post(post) = "True")
    IN  [i \in DOMAIN slideshows |-> extract_post_data(slideshows[i])]

---------------------------------------------------------------------------
(* scrape_profile applied to bounded page data *)

\* a slideshow and a video
Post_1 == PyDict(<<Field(<<"i", "d">>, PyStr(<<"1">>)), Field(S_images, PyList(<<Img_a, Img_b>>))>>)
Post_2 == PyDict(<<Field(<<"i", "d">>, PyStr(<<"2">>)), Field(S_type, PyStr(<<"v", "i", "d", "e", "o">>))>>)

PostLists == { None, Some(<<>>), Some(<<Post_1>>), Some(<<Post_1, Post_2>>) }

\* ItemModule and items are absent or hold the one video
PageData ==
    [user_info : PostLists, user_detail : PostLists, video_list : PostLists,
     other : PostLists,
     item_module : { None, Some(<<Post_2>>) }, items : { None, Some(<<Post_2>>) }]

NoProfileResult == [total_posts |-> 0, slideshow_posts |-> 0, posts |-> <<>>]

InitProfile ==
    /\ prof_pc = "input"
    /\ prof_data \in PageData
    /\ prof_posts = <<>>
    /\ prof_result = NoProfileResult
    /\ ClsIdle /\ UrlIdle /\ ScrIdle
    /\ ExtIdle /\ SsIdle /\ HkIdle /\ CatIdle /\ AggIdle
    /\ CtlIdle

\* tiktok_scraper.py lines 301-302
ExtractPosts ==
    /\ prof_pc = "input"
    /\ prof_posts' = extract_profile_posts(prof_data)
    /\ prof_result' = [prof_result EXCEPT !.total_posts = Len(prof_posts')]
    /\ prof_pc' = "extracted"
    /\ UNCHANGED <<prof_data, cls_vars, url_vars, scr_vars,
                   ext_vars, ss_vars, hk_vars, cat_vars, agg_vars, ctl_vars>>

\* tiktok_scraper.py lines 305-319, for either value of slideshows_only
FilterPosts ==
    /\ prof_pc = "extracted"
    /\ \E slideshows_only \in BOOLEAN :
          LET posts == IF slideshows_only
                       THEN filter_slideshow_posts(prof_posts)
                       ELSE [i \in DOMAIN prof_posts |-> extract_post_data(prof_posts[i])]
          IN  prof_result' =
                 [prof_result EXCEPT
                    !.posts = posts,
                    !.slideshow_posts =
                        Len(SelectSeq(posts, LAMBDA post : post.is_slideshow))]
    /\ prof_pc' = "done"
    /\ UNCHANGED <<prof_data, prof_posts, cls_vars, url_vars, scr_vars,
                   ext_vars, ss_vars, hk_vars, cat_vars, agg_vars, ctl_vars>>

NextProfile == ExtractPosts \/ FilterPosts

SpecProfile == InitProfile /\ [][NextProfile]_vars

---------------------------------------------------------------------------
(* EnhancedPinterestScraper.save_urls_to_txt : the aggregation *)

\* A test that takes any image with tier information for a perfect one.
IsPerfectTier_AnyTier(img) ==
    img.dimensions # None /\ Val(img.dimensions).quality_tier # None

\* lines 481-483: 'dimensions' in img, 'quality_tier' in img['dimensions'] and
\* img['dimensions']['quality_tier'] == 'perfect'
IsPerfectTier(img) ==
    /\ img.dimensions # None
    /\ Val(img.dimensions).quality_tier # None
    /\ Val(Val(img.dimensions).quality_tier) = "perfect"

\* lines 494 and 500
AspectOf(img) ==
    IF img.dimensions # None THEN Val(img.dimensions).aspect_ratio ELSE "unknown"

\* lines 495-497 and 501-503: the dict, as its entries in insertion order,
\* after one more image
AddToGroup(by_aspect, aspect, img) ==
    IF \E i \in DOMAIN by_aspect : by_aspect[i].key = aspect
    THEN [i \in DOMAIN by_aspect |->
            IF by_aspect[i].key = aspect
            THEN [key |-> aspect, value |-> Append(by_aspect[i].value, img)]
            ELSE by_aspect[i]]
    ELSE Append(by_aspect, [key |-> aspect, value |-> <<img>>])

\* lines 493-497 and 499-503: the loop from the i-th image on
RECURSIVE GroupByAspect(_, _, _)
GroupByAspect(images, i, by_aspect) ==
    IF i > Len(images) THEN by_aspect
    ELSE GroupByAspect(images, i + 1, AddToGroup(by_aspect, AspectOf(images[i]), images[i]))

---------------------------------------------------------------------------
(* save_urls_to_txt applied to bounded inputs *)

MaxImages == 3          \* the longest list of images

Dimensions(tier, aspect) == Some([quality_tier |-> tier, aspect_ratio |-> aspect])

\* the dimensions of an image: of either tier and several ratios, without
\* tier, or missing
DimensionsChoices ==
    { Dimensions(Some("perfect"), "9:16"), Dimensions(Some("perfect"), "1:1"),
      Dimensions(Some("croppable"), "3:4"), Dimensions(Some("croppable"), "9:16"),
      Dimensions(None, "4:5"), None }

\* lists of distinct images: the image_url of an image is its rank in the list
ImageLists ==
    UNION { { [i \in 1..n |-> [image_url |-> i, dimensions |-> dims[i]]] :
                dims \in [1..n -> DimensionsChoices] } : n \in 0..MaxImages }

InitAggregate ==
    /\ agg_pc = "input"
    /\ agg_images \in ImageLists
    /\ agg_perfect = <<>> /\ agg_croppable = <<>>
    /\ agg_perfect_by = <<>> /\ agg_croppable_by = <<>>
    /\ ClsIdle /\ UrlIdle /\ ScrIdle
    /\ ExtIdle /\ SsIdle /\ HkIdle /\ CatIdle /\ ProfIdle
    /\ CtlIdle

\* lines 478-488: the tiers
SplitTiers ==
    /\ agg_pc = "input"
    /\ agg_perfect' = SelectSeq(agg_images, IsPerfectTier)
    /\ agg_croppable' = SelectSeq(agg_images, LAMBDA img : ~IsPerfectTier(img))
    /\ agg_pc' = "tiers"
    /\ UNCHANGED <<agg_images, agg_perfect_by, agg_croppable_by, cls_vars, url_vars,
                   scr_vars, ext_vars, ss_vars, hk_vars, cat_vars, prof_vars, ctl_vars>>

\* lines 490-503: the groups of each tier
GroupTiers ==
    /\ agg_pc = "tiers"
    /\ agg_perfect_by' = GroupByAspect(agg_perfect, 1, <<>>)
    /\ agg_croppable_by' = GroupByAspect(agg_croppable, 1, <<>>)
    /\ agg_pc' = "done"
    /\ UNCHANGED <<agg_images, agg_perfect, agg_croppable, cls_vars, url_vars,
                   scr_vars, ext_vars, ss_vars, hk_vars, cat_vars, prof_vars, ctl_vars>>

NextAggregate == SplitTiers \/ GroupTiers

SpecAggregate == InitAggregate /\ [][NextAggregate]_vars

---------------------------------------------------------------------------
(* Two calls of scrape_category with their discovery passes interleaved *)

\* lines 340-361: the for loop over img_elements, from its i-th element on
RECURSIVE ForLoop(_, _, _, _)
ForLoop(d, img_elements, i, target) ==
    IF i > Len(img_elements) \/ TargetReached(Len(d), target) THEN d
    ELSE ForLoop(AfterElement(d, img_elements[i]), img_elements, i + 1, target)

\* the state of one call's loop
Collector(images, no_new, scroll, stopped) ==
    [images |-> images, no_new |-> no_new, scroll |-> scroll, stopped |-> stopped]

\* line 329-331
NewCollector == Collector(<<>>, 0, 0, FALSE)

\* lines 334-381: one pass of the while loop; stopped is the break of line 368
AfterPass(c, img_elements, target) ==
    LET d == ForLoop(c.images, img_elements, 1, target)
    IN  IF Len(d) = Len(c.images)
        THEN IF PatienceExceeded(c.no_new + 1)
             THEN Collector(d, c.no_new + 1, c.scroll, TRUE)
             ELSE Collector(d, c.no_new + 1, c.scroll + 1, FALSE)
        ELSE Collector(d, 0, c.scroll + 1, FALSE)

\* lines 329-381 of a call that meets the given passes and no other call
RECURSIVE RunAlone(_, _, _, _, _)
RunAlone(c, passes, i, target, limit) ==
    IF i > Len(passes) \/ c.stopped
       \/ ~LoopContinues(Len(c.images), target, c.scroll, limit)
    THEN c
    ELSE RunAlone(AfterPass(c, passes[i], target), passes, i + 1, target, limit)

\* A dict that every call shares.
LocalDict_Shared(images, r) == images[1]

\* line 329: scraped_images is a local variable of the call
LocalDict(images, r) == images[r]

Runs == {1, 2}

MaxPasses == 2          \* the largest max_scrolls of the two calls

E_cat == Element(Some(U_236_x), Some("cat"), Some("/pin/1/"), <<1080, 1920>>, "no")
E_dog == Element(Some(U_orig_y), Some("dog"), Some("/pin/2/"), <<720, 960>>, "no")
E_puppy == Element(Some(U_orig_y), Some("puppy"), None, <<1080, 1350>>, "no")

\* what find_elements may return in a pass: nothing, one image, and two pairs
\* that hold the image of E_dog under either of its two elements
PassCandidates == { <<>>, <<E_dog>>, <<E_puppy, E_cat>>, <<E_cat, E_dog>> }

InitRuns ==
    /\ run_pc = [r \in Runs |-> "idle"]
    /\ run_target = [r \in Runs |-> 0]
    /\ run_max_scrolls = [r \in Runs |-> 0]
    /\ run_images = [r \in Runs |-> <<>>]
    /\ run_no_new = [r \in Runs |-> 0]
    /\ run_scroll = [r \in Runs |-> 0]
    /\ run_data = [r \in Runs |-> None]
    /\ run_scraped_data = <<>>
    /\ h_run_passes = [r \in Runs |-> <<>>]
    /\ ClsIdle /\ UrlIdle /\ ScrIdle /\ AuxIdle /\ TkIdle

\* lines 299-331: the call, up to the first test of the while loop
RunStart(r) ==
    /\ run_pc[r] = "idle"
    /\ \E target \in 0..MaxTarget, limit \in 0..MaxPasses :
          /\ run_target' = [run_target EXCEPT ![r] = target]
          /\ run_max_scrolls' = [run_max_scrolls EXCEPT ![r] = limit]
    /\ run_images' = [run_images EXCEPT ![r] = NewCollector.images]
    /\ run_no_new' = [run_no_new EXCEPT ![r] = NewCollector.no_new]
    /\ run_scroll' = [run_scroll EXCEPT ![r] = NewCollector.scroll]
    /\ run_pc' = [run_pc EXCEPT ![r] = "while"]
    /\ UNCHANGED <<run_data, run_scraped_data, h_run_passes,
                   cls_vars, url_vars, scr_vars, aux_vars, tk_vars>>

\* lines 333-381: the while test passes and the pass runs
RunPass(r) ==
    /\ run_pc[r] = "while"
    /\ LoopContinues(Len(run_images[r]), run_target[r], run_scroll[r], run_max_scrolls[r])
    /\ \E img_elements \in PassCandidates :
          LET c == AfterPass(Collector(LocalDict(run_images, r), run_no_new[r],
                                       run_scroll[r], FALSE),
                             img_elements, run_target[r])
          IN  /\ run_images' = [run_images EXCEPT ![r] = c.images]
              /\ run_no_new' = [run_no_new EXCEPT ![r] = c.no_new]
              /\ run_scroll' = [run_scroll EXCEPT ![r] = c.scroll]
              /\ run_pc' = [run_pc EXCEPT ![r] = IF c.stopped THEN "store" ELSE "while"]
              /\ h_run_passes' = [h_run_passes EXCEPT ![r] = Append(@, img_elements)]
    /\ UNCHANGED <<run_target, run_max_scrolls, run_data, run_scraped_data,
                   cls_vars, url_vars, scr_vars, aux_vars, tk_vars>>

\* lines 333 and 383-397: the while test fails, or the loop was left by the
\* break, and the results are stored and returned
RunStore(r) ==
    /\ \/ run_pc[r] = "store"
       \/ /\ run_pc[r] = "while"
          /\ ~LoopContinues(Len(run_images[r]), run_target[r], run_scroll[r],
                            run_max_scrolls[r])
    /\ run_data' =
          [run_data EXCEPT ![r] =
              Some([category |-> r,
                    images |-> Take(DictValues(run_images[r]), run_target[r]),
                    total_found |-> Len(run_images[r])])]
    /\ run_scraped_data' = Append(run_scraped_data, Val(run_data'[r]))
    /\ run_pc' = [run_pc EXCEPT ![r] = "done"]
    /\ UNCHANGED <<run_target, run_max_scrolls, run_images, run_no_new, run_scroll,
                   h_run_passes, cls_vars, url_vars, scr_vars, aux_vars, tk_vars>>

NextRuns == \E r \in Runs : RunStart(r) \/ RunPass(r) \/ RunStore(r)

SpecRuns == InitRuns /\ [][NextRuns]_vars

---------------------------------------------------------------------------
(* tiktok-scraper/profile_manager.py : ProfileManager *)

\* profiles_data maps a username to its entry; here every username has an
\* option, None for a username that is not a key.  The usernames are clean
\* (strip().lstrip('@') leaves them as they are); of an entry the fields url,
\* added_at, metadata and last_error_time are left out.
Users == { "a", "b" }

\* lines 39-48 when profiles.json does not exist
NoProfiles == [u \in Users |-> None]

\* lines 71-80
NewProfile ==
    [status |-> "pending", error_count |-> 0, last_scraped |-> None,
     total_posts_scraped |-> 0, slideshow_posts_scraped |-> 0, last_error |-> None]

\* lines 59-89
add_profile(data, username) ==
    IF data[username] # None THEN data
    ELSE [data EXCEPT ![username] = Some(NewProfile)]

\* lines 91-108
remove_profile(data, username) == [data EXCEPT ![username] = None]

\* is an Optional[str] truthy
TruthyStr(o) == o # None /\ Val(o) # ""

\* A version that sets the status in the branches that record something.
update_profile_status_InBranches(data, username, status, error, now) ==
    IF data[username] = None THEN data
    ELSE LET p == Val(data[username])
         IN  [data EXCEPT ![username] = Some(
                IF status = "completed"
                THEN [p EXCEPT !.status = status, !.last_scraped = Some(now)]
                ELSE IF status = "error" /\ TruthyStr(error)
                THEN [p EXCEPT !.status = status, !.error_count = @ + 1,
                               !.last_error = error]
                ELSE IF status = "error" THEN p
                ELSE [p EXCEPT !.status = status])]

\* lines 110-127, now being datetime.now()
update_profile_status(data, username, status, error, now) ==
    IF data[username] = None THEN data
    ELSE LET p == [Val(data[username]) EXCEPT !.status = status]
         IN  [data EXCEPT ![username] = Some(
                IF status = "completed" THEN [p EXCEPT !.last_scraped = Some(now)]
                ELSE IF status = "error" /\ TruthyStr(error)
                THEN [p EXCEPT !.error_count = @ + 1, !.last_error = error]
                ELSE p)]

\* lines 129-138
update_profile_stats(data, username, total_posts, slideshow_posts) ==
    IF data[username] = None THEN data
    ELSE [data EXCEPT ![username] = Some(
            [Val(@) EXCEPT !.total_posts_scraped = @ + total_posts,
                           !.slideshow_posts_scraped = @ + slideshow_posts])]

\* lines 175-186
reset_profile(data, username) ==
    IF data[username] = None THEN data
    ELSE [data EXCEPT ![username] = Some([Val(@) EXCEPT !.status = "pending",
                                                        !.error_count = 0])]

\* what profiles.json holds after a method that calls save_profiles unless the
\* username is not a key (lines 114-116, 133-134, 179-181)
Saved(file, data, username, after) == IF data[username] = None THEN file ELSE after

---------------------------------------------------------------------------
(* tiktok-scraper/tiktok_scraper.py : scrape_profile, scrape_multiple_profiles *)

\* line 166: stop_after_attempt(3)
MaxAttempts == 3

\* line 166: tenacity's retry runs the function again when it raised and
\* fewer than 3 attempts were made; a returned value, True or False, is final
ShouldRetry(outcome, attempts) == outcome = "raised" /\ attempts < MaxAttempts

\* line 290
S_failed_to_navigate == "Failed to navigate to profile"

\* lines 274-282
NewResult(username, now) ==
    [username |-> username, scraped_at |-> Some(now), total_posts |-> 0,
     slideshow_posts |-> 0, error |-> None]

\* lines 385-393
FailedResult(username, error) ==
    [username |-> username, scraped_at |-> None, total_posts |-> 0,
     slideshow_posts |-> 0, error |-> Some(error)]

---------------------------------------------------------------------------
(* The cli and scrape_multiple_profiles as a state machine *)

MaxProfiles == 2        \* the longest list of usernames
MaxScrapes == 2         \* scrape_profile calls in all

UsernameLists == UNION { [1..n -> Users] : n \in 0..MaxProfiles }

\* str(e) of what the steps of a scrape may raise: asyncio.TimeoutError() has
\* an empty message
Messages == { "", "boom" }

\* (total_posts, slideshow_posts) of a scrape: no page data, and two posts of
\* which one is a slideshow
PostCounts == { <<0, 0>>, <<2, 1>> }

\* the state before any command, for either way of running the cli
NoCommandYet ==
    /\ tk_file = NoProfiles
    /\ tk_data = NoProfiles
    /\ tk_pc = "idle"
    /\ tk_usernames = <<>>
    /\ tk_i = 0
    /\ tk_results = <<>>
    /\ tk_result = None
    /\ tk_clock = 0
    /\ h_nav_attempts = 0
    /\ h_nav_ok = FALSE
    /\ h_failed = [u \in Users |-> 0]
    /\ h_cli = [u \in Users |-> "none"]
    /\ ClsIdle /\ UrlIdle /\ ScrIdle /\ AuxIdle /\ RunIdle

\* the cli commands run while no scrape does
InitTikTok == tk_shared = FALSE /\ NoCommandYet

\* the cli commands also run during a scrape
InitTikTokShared == tk_shared = TRUE /\ NoCommandYet

TkOthers == <<tk_shared, cls_vars, url_vars, scr_vars, aux_vars, run_vars>>

\* may a cli command run now
CliMayRun == tk_shared \/ tk_pc = "idle"

\* cli.py lines 67-78: a ProfileManager is created (it loads profiles.json)
\* and adds the profile
CliAdd(username) ==
    /\ CliMayRun
    /\ tk_file' = add_profile(tk_file, username)
    /\ h_failed' = IF tk_file[username] = None
                   THEN [h_failed EXCEPT ![username] = 0] ELSE h_failed
    /\ h_cli' = IF tk_file[username] = None /\ tk_pc # "idle"
                THEN [h_cli EXCEPT ![username] = "added"] ELSE h_cli
    /\ UNCHANGED <<tk_data, tk_pc, tk_usernames, tk_i, tk_results, tk_result, tk_clock,
                   h_nav_attempts, h_nav_ok, TkOthers>>

\* cli.py lines 81-92
CliRemove(username) ==
    /\ CliMayRun
    /\ tk_file[username] # None
    /\ tk_file' = remove_profile(tk_file, username)
    /\ h_cli' = IF tk_pc # "idle" THEN [h_cli EXCEPT ![username] = "removed"] ELSE h_cli
    /\ UNCHANGED <<tk_data, tk_pc, tk_usernames, tk_i, tk_results, tk_result, tk_clock,
                   h_nav_attempts, h_nav_ok, h_failed, TkOthers>>

\* cli.py lines 268-285
CliReset(username) ==
    /\ CliMayRun
    /\ tk_file[username] # None
    /\ tk_file' = reset_profile(tk_file, username)
    /\ h_failed' = [h_failed EXCEPT ![username] = 0]
    /\ UNCHANGED <<tk_data, tk_pc, tk_usernames, tk_i, tk_results, tk_result, tk_clock,
                   h_nav_attempts, h_nav_ok, h_cli, TkOthers>>

\* cli.py lines 186-196 and tiktok_scraper.py lines 24-33, 348-365: the
\* scraper is created, its ProfileManager loads profiles.json, and
\* scrape_multiple_profiles runs up to the loop
StartRun ==
    /\ tk_pc = "idle"
    /\ \E usernames \in UsernameLists, setup_ok \in BOOLEAN :
          /\ tk_clock + Len(usernames) <= MaxScrapes
          /\ tk_usernames' = usernames
          /\ tk_pc' = IF usernames = <<>> THEN "done"
                      ELSE IF setup_ok THEN "loop" ELSE "raised"
    /\ tk_data' = tk_file
    /\ tk_i' = 1
    /\ tk_results' = <<>>
    /\ tk_result' = None
    /\ h_cli' = [u \in Users |-> "none"]
    /\ UNCHANGED <<tk_file, tk_clock, h_nav_attempts, h_nav_ok, h_failed, TkOthers>>

\* lines 365-370 and 274-286: the next username, and scrape_profile up to
\* the navigation
BeginScrape ==
    /\ tk_pc = "loop"
    /\ tk_i <= Len(tk_usernames)
    /\ LET username == tk_usernames[tk_i]
           after == update_profile_status(tk_data, username, "in_progress", None,
                                          tk_clock + 1)
       IN  /\ tk_result' = Some(NewResult(username, tk_clock + 1))
           /\ tk_data' = after
           /\ tk_file' = Saved(tk_file, tk_data, username, after)
    /\ tk_clock' = tk_clock + 1
    /\ h_nav_attempts' = 0
    /\ h_nav_ok' = FALSE
    /\ tk_pc' = "navigate"
    /\ UNCHANGED <<tk_usernames, tk_i, tk_results, h_failed, h_cli, TkOthers>>

\* lines 340-346: the except branch of scrape_profile
ScrapeFails(error_msg) ==
    LET username == tk_usernames[tk_i]
        after == update_profile_status(tk_data, username, "error", Some(error_msg),
                                       tk_clock)
    IN  /\ tk_result' = Some([Val(tk_result) EXCEPT !.error = Some(error_msg)])
        /\ tk_data' = after
        /\ tk_file' = Saved(tk_file, tk_data, username, after)
        /\ h_failed' = [h_failed EXCEPT ![username] = @ + 1]
        /\ tk_pc' = "append"

\* lines 166-190 and 289-290: one run of navigate_to_profile's body, which
\* returns True, or False when anything in it raised
Navigate ==
    /\ tk_pc = "navigate"
    /\ h_nav_attempts' = h_nav_attempts + 1
    /\ \E outcome \in {"True", "False"} :
          IF ShouldRetry(outcome, h_nav_attempts + 1)
          THEN UNCHANGED <<tk_pc, tk_result, tk_data, tk_file, h_failed, h_nav_ok>>
          ELSE IF outcome = "True"
          THEN /\ tk_pc' = "body"
               /\ h_nav_ok' = TRUE
               /\ UNCHANGED <<tk_result, tk_data, tk_file, h_failed>>
          ELSE /\ ScrapeFails(S_failed_to_navigate)
               /\ UNCHANGED h_nav_ok
    /\ UNCHANGED <<tk_usernames, tk_i, tk_results, tk_clock, h_cli, TkOthers>>

\* lines 292-338: the scrape after the navigation ends well
ScrapeBody ==
    /\ tk_pc = "body"
    /\ \E counts \in PostCounts :
          LET username == tk_usernames[tk_i]
              stats == update_profile_stats(tk_data, username, counts[1], counts[2])
              after == update_profile_status(stats, username, "completed", None, tk_clock)
          IN  /\ tk_result' = Some([Val(tk_result) EXCEPT !.total_posts = counts[1],
                                                          !.slideshow_posts = counts[2]])
              /\ tk_data' = after
              /\ tk_file' = Saved(tk_file, tk_data, username, after)
    /\ tk_pc' = "append"
    /\ UNCHANGED <<tk_usernames, tk_i, tk_results, tk_clock, h_nav_attempts, h_nav_ok,
                   h_failed, h_cli, TkOthers>>

\* lines 292-297 and 340-346: a step of the scrape raises
ScrapeRaises ==
    /\ tk_pc = "body"
    /\ \E error_msg \in Messages : ScrapeFails(error_msg)
    /\ UNCHANGED <<tk_usernames, tk_i, tk_results, tk_clock, h_nav_attempts, h_nav_ok,
                   h_cli, TkOthers>>

\* lines 370-374: scrape_profile has returned
AppendResult ==
    /\ tk_pc = "append"
    /\ tk_results' = Append(tk_results, Val(tk_result))
    /\ tk_pc' = IF ~TruthyStr(Val(tk_result).error) THEN "save" ELSE "delay"
    /\ UNCHANGED <<tk_file, tk_data, tk_usernames, tk_i, tk_result, tk_clock,
                   h_nav_attempts, h_nav_ok, h_failed, h_cli, TkOthers>>

\* lines 382-395: the except branch of the loop body
LoopFails(error_msg) ==
    /\ tk_results' = Append(tk_results, FailedResult(tk_usernames[tk_i], error_msg))
    /\ tk_i' = tk_i + 1
    /\ tk_pc' = "loop"

\* lines 375 and 407-438: save_profile_data returns or raises
SaveData ==
    /\ tk_pc = "save"
    /\ \/ tk_pc' = "delay" /\ UNCHANGED <<tk_results, tk_i>>
       \/ \E error_msg \in Messages : LoopFails(error_msg)
    /\ UNCHANGED <<tk_file, tk_data, tk_usernames, tk_result, tk_clock,
                   h_nav_attempts, h_nav_ok, h_failed, h_cli, TkOthers>>

\* lines 378-380: the delay between profiles returns or raises
Delay ==
    /\ tk_pc = "delay"
    /\ \/ tk_pc' = "loop" /\ tk_i' = tk_i + 1 /\ UNCHANGED tk_results
       \/ /\ tk_i < Len(tk_usernames)
          /\ \E error_msg \in Messages : LoopFails(error_msg)
    /\ UNCHANGED <<tk_file, tk_data, tk_usernames, tk_result, tk_clock,
                   h_nav_attempts, h_nav_ok, h_failed, h_cli, TkOthers>>

\* lines 400-405: the loop is over
FinishRun ==
    /\ tk_pc = "loop"
    /\ tk_i > Len(tk_usernames)
    /\ tk_pc' = "done"
    /\ UNCHANGED <<tk_file, tk_data, tk_usernames, tk_i, tk_results, tk_result, tk_clock,
                   h_nav_attempts, h_nav_ok, h_failed, h_cli, TkOthers>>

\* cli.py lines 208-221: the results are shown and the process ends
EndRun ==
    /\ tk_pc \in {"done", "raised"}
    /\ tk_pc' = "idle"
    /\ tk_data' = NoProfiles
    /\ tk_usernames' = <<>>
    /\ tk_i' = 0
    /\ tk_results' = <<>>
    /\ tk_result' = None
    /\ h_nav_attempts' = 0
    /\ h_nav_ok' = FALSE
    /\ h_cli' = [u \in Users |-> "none"]
    /\ UNCHANGED <<tk_file, tk_clock, h_failed, TkOthers>>

RunSteps ==
    \/ StartRun \/ BeginScrape \/ Navigate \/ ScrapeBody \/ ScrapeRaises
    \/ AppendResult \/ SaveData \/ Delay \/ FinishRun \/ EndRun

CliSteps == \E username \in Users :
    CliAdd(username) \/ CliRemove(username) \/ CliReset(username)

NextTikTok == RunSteps \/ CliSteps

SpecTikTok == InitTikTok /\ [][NextTikTok]_vars

SpecTikTokShared == InitTikTokShared /\ [][NextTikTok]_vars

---------------------------------------------------------------------------
(* Claims about is_social_media_compatible, checked under SpecClassify *)

Classified == cls_pc # "input" /\ cls_pc # "idle"

FirstIs(w, h) == Classified /\ cls_w = Some(w) /\ cls_h = Some(h)

Result(ok, ratio, score, tier) ==
    [compatible |-> ok, aspect_match |-> ratio, quality_score |-> score,
     quality_tier |-> tier]

\* C4: an image whose dimensions are exactly a preferred dimension is
\* classified with that dimension's own catalog ratio and tier, with a score
\* of at least 60: 1080x1440 -> 3:4 croppable, 1080x1080 -> 1:1 perfect,
\* 1080x1350 -> 4:5 perfect, 1080x1620 -> 2:3 croppable, 1080x1728 -> 5:8
\* croppable.
C4_PreferredOwnRatio ==
    \A p \in { <<1080, 1440, "3:4", "croppable">>, <<1080, 1080, "1:1", "perfect">>,
               <<1080, 1350, "4:5", "perfect">>, <<1080, 1620, "2:3", "croppable">>,
               <<1080, 1728, "5:8", "croppable">> } :
        FirstIs(p[1], p[2]) =>
            /\ cls_out.compatible
            /\ cls_out.aspect_match = Some(p[3])
            /\ cls_out.quality_tier = Some(p[4])
            /\ cls_out.quality_score >= 60

\* C5: for every (width, height): accepted <=> matched ratio present <=>
\* score > 0 <=> tier present; the score is an integer in [0,100]; the tier is
\* perfect exactly for 9:16, 1:1, 4:5 and croppable exactly for 3:4, 2:3, 5:8.
C5_ResultConsistent ==
    Classified =>
        /\ cls_out.compatible <=> (cls_out.aspect_match # None)
        /\ cls_out.compatible <=> (cls_out.quality_score > 0)
        /\ cls_out.compatible <=> (cls_out.quality_tier # None)
        /\ cls_out.quality_score \in 0..100
        /\ (cls_out.quality_tier = Some("perfect")) <=>
               (cls_out.aspect_match \in {Some("9:16"), Some("1:1"), Some("4:5")})
        /\ (cls_out.quality_tier = Some("croppable")) <=>
               (cls_out.aspect_match \in {Some("3:4"), Some("2:3"), Some("5:8")})

C5_Witness ==
    /\ FirstIs(720, 960)
    /\ cls_out = Result(TRUE, Some("9:16"), 90, Some("perfect"))

BothAccepted ==
    /\ cls_pc = "both"
    /\ cls_out.compatible /\ cls_out2.compatible
    /\ cls_out.aspect_match = cls_out2.aspect_match

IsPreferred(w, h) == <<w, h>> \in preferred_dimensions \/ <<h, w>> \in preferred_dimensions

\* C6 (as stated): of two accepted images with the same matched ratio, the
\* one with the larger min(width, height) never gets the lower score.
C6_MonotoneInMinDim ==
    (BothAccepted /\ Min2(Val(cls_w2), Val(cls_h2)) >= Min2(Val(cls_w), Val(cls_h)))
        => cls_out2.quality_score >= cls_out.quality_score

\* C6 (amended): of two accepted images with the same matched ratio, the one
\* with the larger min(width, height) never gets the lower score, provided its
\* max(width, height) is not the smaller one and the other image is not an
\* exact preferred dimension (or the swap of one).
C6_MonotoneAmended ==
    ( /\ BothAccepted
      /\ Min2(Val(cls_w2), Val(cls_h2)) >= Min2(Val(cls_w), Val(cls_h))
      /\ Max2(Val(cls_w2), Val(cls_h2)) >= Max2(Val(cls_w), Val(cls_h))
      /\ ~IsPreferred(Val(cls_w), Val(cls_h)) )
        => cls_out2.quality_score >= cls_out.quality_score

C6_Witness ==
    /\ BothAccepted
    /\ cls_w = Some(720) /\ cls_h = Some(1200)
    /\ cls_w2 = Some(1080) /\ cls_h2 = Some(1440)
    /\ cls_out.quality_score < cls_out2.quality_score

\* C7: the classifier rejects every pair the test suite lists as "should be
\* rejected": 540x960, 1920x1080, 800x600, 400x400 and 1080x1200.
C7_TestRejects ==
    \A p \in { <<540, 960>>, <<1920, 1080>>, <<800, 600>>, <<400, 400>>,
               <<1080, 1200>> } :
        FirstIs(p[1], p[2]) => ~cls_out.compatible

C9_BestFirst ==
    Classified =>
        /\ cls_out.compatible =>
             \E i \in 1..Len(target_aspect_ratios) :
                LET w == Val(cls_w)
                    h == Val(cls_h)
                    t == target_aspect_ratios[i]
                IN  /\ cls_out.aspect_match = Some(RatioName(t))
                    /\ WithinTolerance(w, h, t)
                    /\ cls_out.quality_score = CandidateScore(w, h, t)
                    /\ \A j \in 1..Len(target_aspect_ratios) :
                          LET u == target_aspect_ratios[j]
                          IN  WithinTolerance(w, h, u) =>
                                 /\ CandidateScore(w, h, u) <= cls_out.quality_score
                                 /\ CandidateScore(w, h, u) = cls_out.quality_score
                                       => j >= i
        /\ FirstIs(1080, 1920) =>
             cls_out = Result(TRUE, Some("9:16"), 100, Some("perfect"))

\* (1080, 1920): 9:16 and 4:5 are both within tolerance and both score 100.
C9_Witness ==
    /\ FirstIs(1080, 1920)
    /\ cls_out.aspect_match = Some("9:16")
    /\ WithinTolerance(1080, 1920, <<4, 5>>)
    /\ CandidateScore(1080, 1920, <<4, 5>>) = cls_out.quality_score

---------------------------------------------------------------------------
(* Claims about convert_to_original_url, checked under SpecUrl *)

\* C10: convert_to_original_url is idempotent: whenever it returns a URL,
\* applying it to that URL returns the same URL; and every URL of the
\* originals bucket (https://i.pinimg.com/originals/...) that carries no video
\* marker is returned unchanged.
C10_Idempotent ==
    /\ url_pc = "twice" => url_out2 = url_out
    /\ (url_pc \in {"once", "twice"} /\ StartsWith(url_in, S_host_originals)
        /\ ~IsVideoThumbnail(url_in)) => url_out = Some(url_in)

\* a thumbnail URL was rewritten, and the second call returned the rewritten URL
C10_Witness ==
    /\ url_pc = "twice"
    /\ url_out # Some(url_in)
    /\ url_out2 = url_out
    /\ StartsWith(Val(url_out2), S_host_originals)

Converted == url_pc \in {"once", "twice"}

VideoMarkers == { S_videos, S_frame0, S_frame1 }

CarriesVideoMarker(u) == \E m \in VideoMarkers : Contains(u, m)

\* C11: no video placeholder is accepted: convert_to_original_url returns None
\* for every URL containing '/videos/', '.0000000.' or '.0000001.', also when
\* the URL is already in the originals bucket; so no URL it returns, and no
\* image_url extracted from an element of the page, carries one of the markers.
C11_NoVideoAccepted ==
    /\ (Converted /\ CarriesVideoMarker(url_in)) => url_out = None
    /\ (Converted /\ url_out # None) => ~CarriesVideoMarker(Val(url_out))
    /\ \A e \in Elements :
          Extracted[e] # None => ~CarriesVideoMarker(Val(Extracted[e]).image_url)

\* a URL of the originals bucket whose file name carries the second frame
\* marker, and no other marker, was rejected
C11_Witness ==
    /\ url_pc = "once"
    /\ StartsWith(url_in, S_host_originals)
    /\ Contains(url_in, S_frame1)
    /\ ~Contains(url_in, S_videos) /\ ~Contains(url_in, S_frame0)
    /\ url_out = None

\* the width buckets, hash path and file names of the URLs the claim speaks of
WidthBuckets ==
    { <<"2", "3", "6", "x", "/">>, <<"4", "7", "4", "x", "/">>,
      <<"5", "6", "4", "x", "/">>, <<"7", "3", "6", "x", "/">> }

HexHashPath == <<"8", "a", "/", "0", "6", "/", "c", "7", "/">>

\* the URL is https://i.pinimg.com/originals/... or http://i.pinimg.com/originals/...
DenotesOriginalsBucket(u) ==
    \E h \in UrlHosts : StartsWith(u, h \o S_originals \o <<"/">>)

MatchesBucketPattern(u) == MatchWidthBucket(u) # None \/ MatchSizeBucket(u) # None

\* C12: for a non-video URL https://i.pinimg.com/<N>x/<aa>/<bb>/<cc>/<file>
\* convert_to_original_url returns
\* https://i.pinimg.com/originals/<aa>/<bb>/<cc>/<file>, and for every URL that
\* neither denotes the originals bucket nor matches a recognised bucket
\* pattern it returns None.
C12_RewritesOrRejects ==
    Converted =>
        /\ \A b \in WidthBuckets, f \in UrlFiles \ {<<>>} :
              (url_in = S_host \o b \o HexHashPath \o f /\ ~CarriesVideoMarker(url_in))
              => url_out = Some(S_host_originals \o HexHashPath \o f)
        /\ (~DenotesOriginalsBucket(url_in) /\ ~MatchesBucketPattern(url_in))
              => url_out = None

---------------------------------------------------------------------------
(* Claims about scrape_category, checked under Spec *)

Running == pc # "idle"

\* C1: within one scrape_category run, whatever is offered over whatever
\* number of passes, the collection never holds more than target_count items
\* and never two items under the same canonical image_url key (and so neither
\* does the returned list).
C1_BoundedAndUnique ==
    /\ Len(scraped_images) <= target_count
    /\ \A i, j \in DOMAIN scraped_images :
          /\ scraped_images[i].value.image_url = scraped_images[i].key
          /\ i # j => scraped_images[i].key # scraped_images[j].key
    /\ pc = "done" =>
          LET images == Val(category_data).images
          IN  /\ Len(images) <= target_count
              /\ \A i, j \in DOMAIN images :
                    i # j => images[i].image_url # images[j].image_url

\* the target was reached in the middle of a pass that had more elements to offer
C1_Witness ==
    /\ pc = "for"
    /\ target_count = 2
    /\ Len(scraped_images) = target_count
    /\ img_left > 0

\* C2: a candidate whose canonical key is already stored leaves the collection
\* unchanged: each key keeps the item first offered under it (thumbnail_url,
\* alt_text, pin_url and dimensions included), the keys keep their order, and
\* the returned images list is in first-acceptance order.
C2_FirstSeenWins ==
    /\ DictValues(scraped_images) = h_first_seen
    /\ pc = "done" => Val(category_data).images = h_first_seen

\* the last element offered an item whose key was stored with other data
C2_Witness ==
    /\ pc = "for"
    /\ h_last_offer # None
    /\ \E i \in DOMAIN scraped_images :
          /\ scraped_images[i].key = Val(h_last_offer).image_url
          /\ scraped_images[i].value.thumbnail_url # Val(h_last_offer).thumbnail_url
          /\ scraped_images[i].value.alt_text # Val(h_last_offer).alt_text
          /\ scraped_images[i].value.dimensions # Val(h_last_offer).dimensions

\* C3: after every pass the stall counter is the number of immediately
\* preceding consecutive passes that added no key (a pass that adds one resets
\* it to 0, a pass of duplicates and rejected candidates increments it), and the
\* run stops for stalling exactly when the counter exceeds 15, at the 16th
\* consecutive empty pass.
C3_StallCounter ==
    Running =>
        /\ no_new_images_count = h_empty_passes
        /\ (stop_reason = "stall") <=> (no_new_images_count > 15)
        /\ stop_reason = "stall" => no_new_images_count = 16 /\ pc \in {"store", "done"}

\* a pass added a key, the next sixteen added none, and the run stopped
C3_Witness ==
    /\ pc = "done"
    /\ stop_reason = "stall"
    /\ Len(scraped_images) = 1
    /\ scroll_count = 16
    /\ no_new_images_count = 16

---------------------------------------------------------------------------
(* Claims about extract_image_data, checked under SpecExtract *)

SrcOf(e) == Val(e.src)

TinyProfileBucket(u) == Contains(u, S_60x60) \/ Contains(u, S_75x75)

\* C13: the URL normaliser rejects every URL whose path carries a
\* tiny-profile-picture bucket (/60x60/ or /75x75/): convert_to_original_url
\* returns None for it.
C13_NormaliserRejectsTiny ==
    (ext_pc = "both" /\ TinyProfileBucket(SrcOf(ext_in))) => ext_norm = None

\* C13, amended: extract_image_data returns None for every element whose src
\* carries /60x60/ or /75x75/, so no such image is extracted;
\* convert_to_original_url alone does not reject these URLs: it rewrites
\* https://i.pinimg.com/<N>x<M>/<aa>/<bb>/<cc>/<file> to the originals bucket.
C13_ExtractRejectsTiny ==
    /\ (ext_pc \in {"extracted", "both"} /\ ext_in.src # None
        /\ TinyProfileBucket(SrcOf(ext_in))) => ext_out = None
    /\ ext_pc = "both" =>
          \A b \in { SubSeq(S_60x60, 2, 7), SubSeq(S_75x75, 2, 7) } :
              SrcOf(ext_in) = S_host \o b \o HexHashPath \o <<"x", ".", "j", "p", "g">>
              => ext_norm = Some(S_host_originals \o HexHashPath \o <<"x", ".", "j", "p", "g">>)

\* an element with a /60x60/ src and dimensions the classifier accepts was
\* rejected, while the normaliser alone rewrote its src
C13_Witness ==
    /\ ext_pc = "both"
    /\ Contains(SrcOf(ext_in), S_60x60)
    /\ ext_in.dims = <<1080, 1920>>
    /\ ext_out = None
    /\ ext_norm # None

---------------------------------------------------------------------------
(* Further claims about scrape_category, checked under Spec *)

CatalogRatioNames == { "9:16", "1:1", "4:5", "3:4", "2:3", "5:8" }

\* the elements that pass the normaliser and the classifier, and their items
PassedBothFilters ==
    { e \in Elements :
        /\ e.src # None /\ e.dims # None
        /\ convert_to_original_url(SrcOf(e)) # None
        /\ is_social_media_compatible(Some(e.dims[1]), Some(e.dims[2])).compatible }

AcceptedItems ==
    { [thumbnail_url |-> SrcOf(e),
       image_url |-> Val(convert_to_original_url(SrcOf(e))),
       dimensions |-> <<e.dims[1], e.dims[2]>>] : e \in PassedBothFilters }

\* the checks of test_originals_only.py on one item, and the filters it passed
PassedChecks(img) ==
    /\ Contains(img.image_url, S_originals)
    /\ ~CarriesVideoMarker(img.image_url)
    /\ img.dimensions.aspect_ratio \in CatalogRatioNames
    /\ img.dimensions.quality_tier \in {"perfect", "croppable"}
    /\ img.dimensions.quality_score > 0
    /\ [thumbnail_url |-> img.thumbnail_url, image_url |-> img.image_url,
        dimensions |-> <<img.dimensions.width, img.dimensions.height>>]
          \in AcceptedItems

---------------------------------------------------------------------------
(* Claims about is_slideshow_post, checked under SpecSlideshow *)

IsDict(v) == v.kind = "dict"

\* (a) an indicator word occurs in the lower-cased serialised record
SignalIndicatorWord(v) ==
    /\ Serialisable(v)
    /\ \E i \in DOMAIN slideshow_indicators :
          Contains(Lower(Dumps(v)), Lower(slideshow_indicators[i]))

\* (b) a per-image-URL field holds a list of more than one entry
SignalImageUrlList(v) ==
    /\ IsDict(v)
    /\ \E i \in DOMAIN v.fields :
          /\ Contains(Lower(v.fields[i].key), S_imageurl)
          /\ v.fields[i].val.kind = "list"
          /\ Len(v.fields[i].val.items) > 1

\* (c) the value of the type field contains an indicator word
SignalTypeField(v) ==
    /\ IsDict(v) /\ HasKey(v, S_type)
    /\ Val(Get(v, S_type)).kind \in {"str", "int", "none", "list"}
    /\ \E i \in DOMAIN slideshow_indicators :
          Contains(Lower(Str(Val(Get(v, S_type)))), Lower(slideshow_indicators[i]))

\* (d) the images field is a list of more than one entry
SignalImagesList(v) ==
    /\ IsDict(v) /\ HasKey(v, S_images)
    /\ Val(Get(v, S_images)).kind = "list"
    /\ Len(Val(Get(v, S_images)).items) > 1

\* C15: is_slideshow_post(record) is True exactly when at least one of the
\* four signals holds: an indicator word in the serialised record, a
\* per-image-URL list of more than one entry, an indicator word in the type
\* field, an images list of more than one entry.
C15_TrueIffSignal ==
    ss_pc = "done" =>
        ((ss_out = "True") <=>
            (SignalIndicatorWord(ss_in) \/ SignalImageUrlList(ss_in)
             \/ SignalTypeField(ss_in) \/ SignalImagesList(ss_in)))

\* C16: is_slideshow_post never raises: for a record with missing fields, for
\* a value that is no dict (a list, a string, a number, None) and for a record
\* that cannot be serialised it returns a boolean, and it returns False
\* whenever a statement of its body raises.
C16_NeverRaises ==
    ss_pc = "done" =>
        /\ ss_out \in {"True", "False"}
        /\ ss_err => ss_out = "False"
        /\ (ss_in.kind \in {"int", "none"} \/ ~Serialisable(ss_in)) => ss_err

\* the get method of a list raised, and the call returned False
C16_Witness ==
    /\ ss_pc = "done"
    /\ ss_in.kind = "list"
    /\ ss_err
    /\ ss_out = "False"

---------------------------------------------------------------------------
(* Claims about extract_hook, checked under SpecHook *)

BreakMarkers == { <<"\n">>, <<"!">>, <<"?">>, S_ellipsis, <<"#">> }

\* the indices p, lo <= p < max_length, at which a marker first occurs in s
FirstOccurrences(s, lo, max_length) ==
    { Find(s, mk) : mk \in BreakMarkers } \cap lo..(max_length - 1)

Earliest(ps) == CHOOSE p \in ps : \A q \in ps : p <= q

\* C17: whenever the first occurrence of a newline, '!', '?', '...' or '#' lies
\* at an index p with 0 <= p < max_length, the hook is the trimmed prefix of
\* the caption that ends at and includes the earliest such occurrence.
C17_HookEndsAtEarliestBreak ==
    (hk_pc = "done" /\ hk_caption # <<>>) =>
        LET clean == Strip(hk_caption)
            ps == FirstOccurrences(clean, 0, hk_max_length)
        IN  ps # {} => hk_out = Strip(SubSeq(clean, 1, Earliest(ps) + 1))

\* C17, amended: whenever the first occurrence of a newline, '!', '?', '...'
\* or '#' in the stripped caption lies at an index p with 0 < p < max_length,
\* the hook is the trimmed prefix that ends at and includes the earliest such
\* first occurrence (for '...' its first dot); a marker whose first
\* occurrence is at index 0 is not a break point, whatever follows it.
C17_HookEndsAtEarliestInnerBreak ==
    (hk_pc = "done" /\ hk_caption # <<>>) =>
        LET clean == Strip(hk_caption)
            ps == FirstOccurrences(clean, 1, hk_max_length)
        IN  ps # {} => hk_out = Strip(SubSeq(clean, 1, Earliest(ps) + 1))

\* a caption that starts with '#' and has a '!' further on: the hook runs to the '!'
C17_Witness ==
    /\ hk_pc = "done"
    /\ Len(Strip(hk_caption)) >= 3
    /\ Head(Strip(hk_caption)) = "#"
    /\ Find(Strip(hk_caption), <<"!">>) = 2
    /\ hk_out = SubSeq(Strip(hk_caption), 1, 3)

---------------------------------------------------------------------------
(* Claims about categorize_hook, checked under SpecCategorize *)

RECURSIVE SumNumerators(_, _)
SumNumerators(out, i) ==
    IF i > Len(out) THEN 0 ELSE out[i].weight[1] + SumNumerators(out, i + 1)

NoPatternMatches(hook) ==
    \A i \in DOMAIN hook_patterns : \A j \in DOMAIN hook_patterns[i].patterns :
        ~Matches(hook_patterns[i].patterns[j], Strip(Lower(hook)))

\* C18: for every hook the weights returned by categorize_hook sum to 1.0:
\* when at least one category matched, the scores are renormalised to sum to 1
\* (exactly as fractions, and within 2^-52 of 1.0 as doubles, each weight
\* being 1/n for n matched categories); an empty hook gives exactly
\* {unknown: 1.0}; a non-empty hook that matches no pattern gives exactly
\* {general: 1.0}.
C18_WeightsSumToOne ==
    cat_pc = "done" =>
        /\ cat_out # <<>>
        /\ \A i \in DOMAIN cat_out :
              /\ cat_out[i].weight[1] > 0
              /\ cat_out[i].weight[2] = SumNumerators(cat_out, 1)
              /\ cat_out[i].weight[1] = cat_out[1].weight[1]
        /\ EqualWeightsDeficit[Len(cat_out)] <= 2
        /\ cat_hook = <<>> =>
              cat_out = << [category |-> "unknown", weight |-> <<1, 1>>] >>
        /\ (cat_hook # <<>> /\ NoPatternMatches(cat_hook)) =>
              cat_out = << [category |-> "general", weight |-> <<1, 1>>] >>
        /\ (cat_hook # <<>> /\ ~NoPatternMatches(cat_hook)) =>
              \A i \in DOMAIN cat_out :
                  cat_out[i].category \notin {"unknown", "general"}

\* six categories matched, one of them by two patterns
C18_Witness ==
    /\ cat_pc = "done"
    /\ Len(cat_out) = 6
    /\ \E i \in DOMAIN hook_patterns :
          CategoryScore(hook_patterns[i], Strip(Lower(cat_hook)))
              > hook_patterns[i].weight

---------------------------------------------------------------------------
(* Claims about the post pipeline, checked under SpecProfile *)

NoRepeat(s) == \A i, j \in DOMAIN s : i # j => s[i] # s[j]

\* the posts of the page data, whatever place they are found at
PostsOfPage(d) ==
    { ListOf(l)[i] : <<l, i>> \in
        { <<l, i>> \in { d.user_info, d.user_detail, d.video_list, d.other,
                         d.item_module, d.items } \X (1..2) :
            i <= Len(ListOf(l)) } }

\* C19: every source post is stored once: extract_profile_posts returns no
\* post twice, so after filtering no post id occurs twice in a profile's
\* result, and total_posts is the number of distinct posts of the page data.
C19_EachPostOnce ==
    /\ prof_pc \in {"extracted", "done"} =>
          /\ NoRepeat(prof_posts)
          /\ prof_result.total_posts = Cardinality(PostsOfPage(prof_data))
    /\ prof_pc = "done" =>
          NoRepeat([i \in DOMAIN prof_result.posts |-> prof_result.posts[i].id])

---------------------------------------------------------------------------
(* Claims about save_urls_to_txt, checked under SpecAggregate *)

\* how many times img occurs in the list
Occurrences(list, img) == Cardinality({ i \in DOMAIN list : list[i] = img })

\* the list is in input order: the ranks of its images increase
InInputOrder(list) ==
    \A i, j \in DOMAIN list : i < j => list[i].image_url < list[j].image_url

HasPerfectTier(img) ==
    img.dimensions # None /\ Val(img.dimensions).quality_tier = Some("perfect")

RECURSIVE GroupSizes(_, _)
GroupSizes(by_aspect, i) ==
    IF i > Len(by_aspect) THEN 0
    ELSE Len(by_aspect[i].value) + GroupSizes(by_aspect, i + 1)

\* the groups partition the tier, by aspect ratio and in input order
PartitionsTier(by_aspect, tier) ==
    /\ \A i, j \in DOMAIN by_aspect : i # j => by_aspect[i].key # by_aspect[j].key
    /\ \A k \in DOMAIN tier :
          Cardinality({ i \in DOMAIN by_aspect :
                          Occurrences(by_aspect[i].value, tier[k]) > 0 }) = 1
    /\ \A i \in DOMAIN by_aspect :
          /\ by_aspect[i].value # <<>>
          /\ InInputOrder(by_aspect[i].value)
          /\ \A k \in DOMAIN by_aspect[i].value :
                by_aspect[i].key =
                    IF by_aspect[i].value[k].dimensions = None THEN "unknown"
                    ELSE Val(by_aspect[i].value[k].dimensions).aspect_ratio
    /\ GroupSizes(by_aspect, 1) = Len(tier)

\* C20: the aggregation of save_urls_to_txt partitions its input: every image
\* is in exactly one tier bucket (perfect iff its quality_tier is 'perfect',
\* otherwise croppable) and, within the tier, in exactly one aspect-ratio
\* group; perfect + croppable = total, the group sizes of a tier sum to the
\* tier size, and every bucket and group keeps the input order.
C20_Partition ==
    /\ agg_pc \in {"tiers", "done"} =>
          /\ \A k \in DOMAIN agg_images :
                /\ Occurrences(agg_perfect, agg_images[k])
                     = (IF HasPerfectTier(agg_images[k]) THEN 1 ELSE 0)
                /\ Occurrences(agg_croppable, agg_images[k])
                     = (IF HasPerfectTier(agg_images[k]) THEN 0 ELSE 1)
          /\ Len(agg_perfect) + Len(agg_croppable) = Len(agg_images)
          /\ InInputOrder(agg_perfect) /\ InInputOrder(agg_croppable)
    /\ agg_pc = "done" =>
          /\ PartitionsTier(agg_perfect_by, agg_perfect)
          /\ PartitionsTier(agg_croppable_by, agg_croppable)

\* three images of ratio 9:16: the first and the third, croppable, in the one
\* group of the croppable tier, and the second, perfect, in the perfect tier
C20_Witness ==
    /\ agg_pc = "done"
    /\ Len(agg_images) = 3
    /\ Len(agg_perfect) = 1 /\ agg_perfect[1].image_url = 2
    /\ Len(agg_croppable_by) = 1
    /\ agg_croppable_by[1].key = "9:16"
    /\ agg_perfect_by[1].key = "9:16"

---------------------------------------------------------------------------
(* Further claims about extract_hook, checked under SpecHook *)

\* no break point qualifies, in the caption or in the stripped caption
NoBreakQualifies ==
    /\ FirstOccurrences(hk_caption, 0, hk_max_length) = {}
    /\ FirstOccurrences(Strip(hk_caption), 0, hk_max_length) = {}

\* the indices p <= hi at which s has a space
SpacesUpTo(s, hi) == { p \in 0..Min2(hi, Len(s) - 1) : s[p + 1] = " " }

Latest(ps) == CHOOSE p \in ps : \A q \in ps : p >= q

\* C28: when no break point qualifies, extract_hook returns a caption of length
\* <= max_length verbatim; for a longer caption it truncates at the last space
\* at or before index max_length and appends '...', and when there is no such
\* space it hard-truncates at max_length and appends '...'.
C28_VerbatimOrTruncated ==
    (hk_pc = "done" /\ NoBreakQualifies) =>
        LET spaces == SpacesUpTo(hk_caption, hk_max_length)
        IN  IF Len(hk_caption) <= hk_max_length THEN hk_out = hk_caption
            ELSE IF spaces # {}
            THEN hk_out = SubSeq(hk_caption, 1, Latest(spaces)) \o S_ellipsis
            ELSE hk_out = SubSeq(hk_caption, 1, hk_max_length) \o S_ellipsis

\* C28, amended: when no first occurrence of a break marker lies at an index p
\* with 0 < p < max_length of the stripped caption, extract_hook returns a
\* stripped caption of length <= max_length as it is; for a longer stripped
\* caption it cuts at the last space strictly before index max_length, and
\* when there is no such space at index max_length; in both cases it strips
\* the cut text and appends '...'.
C28_StrippedVerbatimOrTruncated ==
    (hk_pc = "done" /\ hk_caption # <<>>) =>
        LET clean == Strip(hk_caption)
            spaces == SpacesUpTo(clean, hk_max_length - 1)
        IN  FirstOccurrences(clean, 1, hk_max_length) = {} =>
               IF Len(clean) <= hk_max_length THEN hk_out = clean
               ELSE IF spaces # {}
               THEN hk_out = Strip(SubSeq(clean, 1, Latest(spaces))) \o S_ellipsis
               ELSE hk_out = Strip(SubSeq(clean, 1, hk_max_length)) \o S_ellipsis

\* a stripped caption with spaces at index 1 and at index max_length = 3: the
\* cut is at index 1
C28_Witness ==
    /\ hk_pc = "done"
    /\ hk_max_length = 3
    /\ hk_caption = <<"a", " ", "a", " ", "a">>
    /\ hk_out = <<"a", ".", ".", ".">>

IsPrefixOf(h, s) == Len(h) <= Len(s) /\ h = SubSeq(s, 1, Len(h))

\* the hook ends with an appended '...': no break point qualified and the
\* stripped caption is longer than max_length
EllipsisAppended ==
    /\ hk_caption # <<>>
    /\ FirstOccurrences(Strip(hk_caption), 1, hk_max_length) = {}
    /\ Len(Strip(hk_caption)) > hk_max_length

\* C30: for every caption and every max_length >= 1 the hook has at most
\* max_length + 3 characters; a hook produced by a break point or returned
\* verbatim has at most max_length characters; and the hook without an
\* appended '...' is a prefix of the stripped caption.
C30_LengthBounded ==
    hk_pc = "done" =>
        LET clean == Strip(hk_caption)
        IN  /\ Len(hk_out) <= hk_max_length + 3
            /\ IF EllipsisAppended
               THEN /\ Len(hk_out) >= 3
                    /\ SubSeq(hk_out, Len(hk_out) - 2, Len(hk_out)) = S_ellipsis
                    /\ IsPrefixOf(SubSeq(hk_out, 1, Len(hk_out) - 3), clean)
               ELSE /\ Len(hk_out) <= hk_max_length
                    /\ IsPrefixOf(hk_out, clean)

\* a hard truncation of the greatest length, max_length + 3, and of a caption
\* whose cut text ends in whitespace that is stripped
C30_Witness ==
    /\ hk_pc = "done"
    /\ hk_max_length = 3
    /\ \/ hk_caption = <<"a", "a", "a", "a">> /\ Len(hk_out) = 6
       \/ hk_caption = <<"a", "\t", "\t", "a">> /\ hk_out = <<"a", ".", ".", ".">>

---------------------------------------------------------------------------
(* Further claims about categorize_hook, checked under SpecCategorize *)

\* the categories in declaration order
DeclaredCategories == [i \in DOMAIN hook_patterns |-> hook_patterns[i].category]

\* the declared categories of which at least one pattern matches the hook
MatchedCategories(hook) ==
    SelectSeq(hook_patterns,
              LAMBDA c : \E j \in DOMAIN c.patterns : Matches(c.patterns[j], Strip(Lower(hook))))

\* C29: in every categorize_hook result with k >= 1 matched categories each
\* weight equals 1/k, whatever the declared multipliers (1.0 to 1.7) and the
\* number of patterns hit, and the primary category chosen in
\* generate_training_data is the first matched category in the declaration
\* order question, statement, story, list, challenge, emotional, educational,
\* controversial.
C29_EqualWeightsFirstWins ==
    /\ DeclaredCategories = << "question", "statement", "story", "list", "challenge",
                               "emotional", "educational", "controversial" >>
    /\ \A i \in DOMAIN hook_patterns :
          hook_patterns[i].weight >= 10 /\ hook_patterns[i].weight <= 17
    /\ (cat_pc \in {"done", "picked"} /\ cat_hook # <<>>) =>
          LET matched == MatchedCategories(cat_hook)
              k == Len(matched)
          IN  k >= 1 =>
                 /\ Len(cat_out) = k
                 /\ \A i \in 1..k :
                       /\ cat_out[i].category = matched[i].category
                       /\ cat_out[i].weight[1] * k = cat_out[i].weight[2]
                 /\ cat_pc = "picked" => cat_primary = Some(matched[1].category)

\* the primary category is the first of several matched categories although a
\* later one has a greater multiplier and is hit by more patterns
C29_Witness ==
    /\ cat_pc = "picked"
    /\ Len(cat_out) >= 2
    /\ cat_primary = Some("statement")
    /\ \E i \in DOMAIN hook_patterns :
          /\ hook_patterns[i].category = "emotional"
          /\ CategoryScore(hook_patterns[i], Strip(Lower(cat_hook)))
                >= 2 * hook_patterns[i].weight

---------------------------------------------------------------------------
(* Termination of scrape_category, checked under SpecFair *)

\* the step that starts a pass: the while test passes
StartsPass == pc = "while" /\ pc' = "for"

\* what holds in every state of a run
PassesBounded ==
    /\ pc # "idle" => h_passes <= max_scrolls
    /\ (pc = "done" /\ target_count = 0) =>
          h_passes = 0 /\ category_data # None /\ Val(category_data).images = <<>>

\* C27: scrape_category always terminates; it performs at most max_scrolls
\* discovery passes; it starts no further pass once the collection holds
\* target_count items or once 16 consecutive passes accepted nothing; with
\* target_count = 0 it performs no pass and returns an empty image list.
C27_Terminates ==
    /\ (pc = "while") ~> (pc = "done")
    /\ []PassesBounded
    /\ [][StartsPass => /\ Len(scraped_images) < target_count
                        /\ h_empty_passes < Patience + 1
                        /\ stop_reason = "none"]_vars

\* a run that used all its 17 passes and returned
C27_Witness ==
    /\ pc = "done"
    /\ max_scrolls = MaxScrolls
    /\ h_passes = max_scrolls
    /\ stop_reason = "max_scrolls"

---------------------------------------------------------------------------
(* Claims about interleaved calls of scrape_category, checked under SpecRuns *)

\* what the call r produces alone on the passes it has met so far
AloneOn(r) ==
    RunAlone(NewCollector, h_run_passes[r], 1, run_target[r], run_max_scrolls[r])

\* the keys of a dict, in insertion order
KeysOf(d) == [i \in DOMAIN d |-> d[i].key]

\* C21: the calls share no collector state.  In every interleaving of the
\* passes of two calls, the dict of each call (its accepted items and their
\* order), its counters and the record it returns are those the call produces
\* alone on the same passes; and a key that one call holds is accepted by the
\* other call, with that call's own first item, as soon as it is offered.
C21_NoSharedCollector ==
    \A r \in Runs :
        /\ run_pc[r] # "idle" =>
              /\ run_images[r] = AloneOn(r).images
              /\ run_no_new[r] = AloneOn(r).no_new
              /\ run_scroll[r] = AloneOn(r).scroll
        /\ run_pc[r] = "done" =>
              /\ run_data[r] # None
              /\ Val(run_data[r]).images =
                    Take(DictValues(AloneOn(r).images), run_target[r])
              /\ \E i \in DOMAIN run_scraped_data :
                    run_scraped_data[i] = Val(run_data[r])

\* both calls hold the key of E_dog, the first with the item of E_dog and
\* the second with the item of E_puppy, which it met after the first call
\* had accepted the key
C21_Witness ==
    /\ run_pc[1] = "done" /\ run_pc[2] = "done"
    /\ h_run_passes[1] = << <<E_dog>> >>
    /\ h_run_passes[2] = << <<E_puppy, E_cat>> >>
    /\ run_scraped_data[1].category = 1
    /\ KeysOf(run_images[1]) = << Val(Extracted[E_dog]).image_url >>
    /\ KeysOf(run_images[2]) = << Val(Extracted[E_dog]).image_url,
                                  Val(Extracted[E_cat]).image_url >>
    /\ Val(run_data[1]).images = << Val(Extracted[E_dog]) >>
    /\ Val(run_data[2]).images = << Val(Extracted[E_puppy]), Val(Extracted[E_cat]) >>

---------------------------------------------------------------------------
(* Claims about scrape_multiple_profiles and the ProfileManager, checked
   under SpecTikTok and SpecTikTokShared *)

\* the username being scraped
Current == tk_usernames[tk_i]

\* is the username a key of the scraper's profiles_data
Tracked(username) == tk_data[username] # None

\* C22: scrape_multiple_profiles returns exactly one result entry for each
\* requested username, in the order of the request, whichever step fails for
\* a profile: the scrape, the saving of the profile data or the delay.
C22_OneEntryPerUsername ==
    tk_pc = "done" =>
        /\ Len(tk_results) = Len(tk_usernames)
        /\ \A i \in DOMAIN tk_results : tk_results[i].username = tk_usernames[i]

\* the statuses a finished scrape may leave
Finished == { "completed", "error" }

\* a step that changes the last_scraped of an entry
ChangesLastScraped(before, after, username) ==
    /\ before[username] # None /\ after[username] # None
    /\ Val(after[username]).last_scraped # Val(before[username]).last_scraped

\* C23: after scrape_profile returns for a tracked profile its status is
\* "completed" or "error", never "in_progress", in memory and in
\* profiles.json; it is "completed" only when the navigation succeeded; and
\* last_scraped changes only in the step that sets the status to "completed".
C23_StatusAfterScrape ==
    /\ [](tk_pc = "append" /\ Tracked(Current) =>
            /\ Val(tk_data[Current]).status \in Finished
            /\ tk_file[Current] = tk_data[Current]
            /\ Val(tk_data[Current]).status = "completed" => h_nav_ok)
    /\ [][\A username \in Users :
            ChangesLastScraped(tk_data, tk_data', username)
               \/ ChangesLastScraped(tk_file, tk_file', username) =>
                  /\ tk_pc = "body" /\ tk_pc' = "append"
                  /\ username = Current
                  /\ Val(tk_data'[username]).status = "completed"
                  /\ Val(tk_data'[username]).last_scraped = Some(tk_clock)]_vars

\* a profile whose first scrape raised with an empty message and whose second
\* scrape was completed: it went through "error" and its last_scraped is the
\* time of the second scrape
C23_Witness ==
    /\ tk_pc = "append" /\ Tracked(Current)
    /\ h_failed[Current] = 1
    /\ Val(tk_data[Current]).error_count = 0
    /\ Val(tk_data[Current]).status = "completed"
    /\ Val(tk_data[Current]).last_scraped = Some(2)
    /\ Val(tk_data[Current]).total_posts_scraped = 2

\* C24: the error_count of a tracked profile is the number of its failed
\* scrapes since it was added or last reset, whatever the message of the
\* exception is.
C24_ErrorCountIsFailures ==
    \A username \in Users :
        tk_file[username] # None =>
            Val(tk_file[username]).error_count = h_failed[username]

\* C25: a profile added or removed by a cli command while a scrape is running
\* stays added or removed in profiles.json after the later updates of the
\* scraper, whose ProfileManager was created before the command.
C25_CliChangeStays ==
    \A username \in Users :
        /\ h_cli[username] = "added" => tk_file[username] # None
        /\ h_cli[username] = "removed" => tk_file[username] = None

\* C26: when the navigation to a profile fails, navigate_to_profile has run 3
\* times before scrape_profile records "Failed to navigate to profile".
C26_NavigationRetried ==
    tk_pc = "append" /\ Val(tk_result).error = Some(S_failed_to_navigate) =>
        h_nav_attempts = MaxAttempts

====
